---- MODULE Spec2Model ----
(***************************************************************************)
(* megamind: a typed client for the Genius API.                            *)
(*                                                                         *)
(* The model follows callers that build a Client with ClientBuilder        *)
(* (src/src/lib.rs:267-319), clone it, and issue calls on it.  A call      *)
(* is one endpoint method (src/src/lib.rs:99-255) followed by the steps of *)
(* Client::get (src/src/lib.rs:66-90): the log line, the dispatch of the   *)
(* GET, the two awaits (send, bytes) and the decode of the buffered body   *)
(* into Response<T> (src/src/models/mod.rs:26-53).                         *)
(*                                                                         *)
(* JSON values are records tagged by k:                                    *)
(*   "null", "num" (v an integer), "str" (v a string), "seq" (an array, v  *)
(*   a sequence), "obj" (v a function from the keys present to values) and *)
(*   "ent" (an object that satisfies the entity struct named ty; the       *)
(*   fields inside the entity are not looked at by the envelope), "bool"   *)
(*   and "float" (v a count of tenths).                                    *)
(* A buffered body that is not a JSON document is [k |-> "invalid"].       *)
(*                                                                         *)
(* The data model (src/src/models) is followed on its own as well: codec   *)
(* holds a document that is decoded into a struct of the model or into     *)
(* Response<T>, serialized again and decoded once more, in a build with or *)
(* without the catchall feature.                                           *)
(***************************************************************************)
EXTENDS Integers, Sequences, FiniteSets, TLC

VARIABLES
  calls,    \* the calls in flight, one per caller task
  builder,  \* the ClientBuilder and the position of its build()
  clients,  \* the Client values alive, by handle
  codec     \* a document taken through decode, serialize and decode again

vars == <<calls, builder, clients, codec>>

(***************************************************************************)
(* Bounds of the model and constants of the program.                      *)
(***************************************************************************)
\* largest of the small Genius IDs the caller passes
MaxId == 1
\* longest array of entities in a payload (referents, hits)
MaxLen == 1
\* an ID the integration tests use for a missing entity
BigId == 999999999
\* per_page and page are u8
U8Max == 255
\* meta.status is u16
U16Max == 65535

BASE_URL == "https://api.genius.com"

CallIds == {1}
\* the Client values a program holds: a built one and a clone
Handles == {1, 2}

Ids == (0 .. MaxId) \cup {BigId}
Pages == {0, U8Max}
Terms == {"", "rock"}
Urls == {"", "https://example.com"}
StatusCodes == {200, 404}

\* an Option that is None
None == [k |-> "none"]
Some(x) == [k |-> "some", v |-> x]
Opt(S) == {None} \cup {Some(x) : x \in S}

(***************************************************************************)
(* JSON values.                                                            *)
(***************************************************************************)
JInvalid == [k |-> "invalid"]
JNull == [k |-> "null"]
JNum(n) == [k |-> "num", v |-> n]
JStr(s) == [k |-> "str", v |-> s]
JArr(s) == [k |-> "seq", v |-> s]
JObj(f) == [k |-> "obj", v |-> f]
JEnt(ty) == [k |-> "ent", ty |-> ty]
JBool(b) == [k |-> "bool", v |-> b]
\* a number written with a fraction, held as a count of tenths
JFloat(t) == [k |-> "float", v |-> t]
\* marks a key that the object being built does not have
Absent == [k |-> "absent"]

(***************************************************************************)
(* Types of the data model.  A type is named by a string; Fields gives the *)
(* fields of a struct in declaration order, as derive(Deserialize) sees    *)
(* them (the serde renames applied).                                       *)
(***************************************************************************)
Ops == {"account", "annotation", "artist", "referents", "search", "song", "user", "web_pages"}

\* the T of Response<T> that each endpoint method asks Client::get for
PayloadType(op) ==
  CASE op = "account" -> "AccountResponse"
    [] op = "annotation" -> "AnnotationResponse"
    [] op = "artist" -> "ArtistResponse"
    [] op = "referents" -> "ReferentsResponse"
    [] op = "search" -> "SearchResponse"
    [] op = "song" -> "SongResponse"
    [] op = "user" -> "UserResponse"
    [] op = "web_pages" -> "WebPageResponse"

\* a field of a struct: the key it is read from and written to, its type,
\* whether it is flattened into the enclosing object (then name is the name of
\* the Rust field), whether it is left out of the output when None, and
\* whether it exists only with the catchall feature
Field(n, t) == [name |-> n, ty |-> t, flatten |-> FALSE, skip |-> FALSE, cfg |-> FALSE]
\* #[serde(skip_serializing_if = "Option::is_none")]
Skip(n, t) == [Field(n, t) EXCEPT !.skip = TRUE]
\* a struct kept under a key of its own
Nest(n, t) == Field(n, t)
\* #[serde(flatten)]
Flat(n, t) == [Field(n, t) EXCEPT !.flatten = TRUE]
\* #[cfg(feature = "catchall")] #[serde(flatten)] pub extra: HashMap<String, Value>
Extra == [Field("extra", "HashMap<String, Value>") EXCEPT !.flatten = TRUE, !.cfg = TRUE]

\* entities that a value may stand for without spelling out their fields
EntityTypes == {"Account", "Annotation", "ReferentCore", "Artist", "Referent", "Hit", "Song", "User", "WebPage"}

\* struct Account (account.rs)
AccountFields ==
  << Field("email", "String"), Field("unread_groups_inbox_count", "u32"),
     Field("unread_main_activity_inbox_count", "u32"),
     Field("unread_newsfeed_inbox_count", "u32"), Field("unread_messages_count", "u32"),
     Flat("user", "User"), Extra >>

\* struct Annotation (annotation.rs)
AnnotationFields ==
  << Field("api_path", "String"), Field("body", "Text"), Field("comment_count", "u32"),
     Field("community", "bool"), Field("custom_preview", "()"), Field("has_voters", "bool"),
     Field("id", "u32"), Field("pinned", "bool"), Field("share_url", "String"),
     Field("source", "()"), Field("state", "AnnotationState"), Field("url", "String"),
     Field("verified", "bool"), Field("votes_total", "i32"),
     Field("rejection_comment", "Option<RejectionComment>"),
     Field("cosigned_by", "Vec<UserCore<Metadata<UserInteractions>>>"),
     Field("verified_by", "Option<UserCore<Metadata<UserInteractions>>>"),
     Field("authors", "Vec<Attributions>"),
     Field("current_user_metadata", "AnnotationMetadata"), Extra >>

\* struct RejectionComment (annotation.rs)
RejectionCommentFields ==
  << Field("api_path", "String"), Field("body", "Text"), Field("commentable_id", "u32"),
     Field("commentable_type", "String"), Field("created_at", "DateTime<Utc>"),
     Field("has_voters", "bool"), Field("id", "u32"), Field("pinned_role", "Option<String>"),
     Field("votes_total", "u32"), Field("anonymous_author", "()"),
     Field("author", "UserCore<UserInteractionMetadata>"),
     Field("reason", "Option<RejectionReason>") >>

\* struct RejectionReason (annotation.rs)
RejectionReasonFields ==
  << Field("context_url", "String"), Field("display_character", "char"),
     Field("handle", "String"), Field("id", "u32"), Field("name", "String"),
     Field("raw_name", "String"), Field("requires_body", "bool"), Field("slug", "String") >>

\* struct Attributions (annotation.rs)
AttributionsFields ==
  << Field("attribution", "f64"), Field("pinned_role", "Option<Role>"),
     Field("user", "UserCore<Metadata<UserInteractions>>") >>

\* enum AnnotationState (annotation.rs)
AnnotationStateVariants ==
  << "verified", "needs_exegesis", "accepted", "suspect", "rough", "pending" >>

\* struct Artist (artist.rs)
ArtistFields ==
  << Field("alternate_names", "Vec<String>"), Field("description", "Text"),
     Field("facebook_name", "Option<String>"), Field("instagram_name", "Option<String>"),
     Field("twitter_name", "Option<String>"), Field("followers_count", "u32"),
     Field("translation_artist", "bool"), Field("description_annotation", "Referent"),
     Field("user", "Option<UserCore<UserInteractionMetadata>>"), Flat("core", "ArtistCore"),
     Extra >>

\* struct ArtistCore (artist.rs)
ArtistCoreFields ==
  << Flat("info", "ArtistCoreNoMetadata"),
     Field("current_user_metadata", "UserInteractionMetadata") >>

\* struct ArtistCoreNoMetadata (artist.rs)
ArtistCoreNoMetadataFields ==
  << Field("api_path", "String"), Field("header_image_url", "String"), Field("id", "u32"),
     Skip("iq", "Option<u32>"), Field("image_url", "String"),
     Field("is_meme_verified", "bool"), Field("is_verified", "bool"),
     Field("name", "String"), Field("url", "String") >>

\* struct Metadata (metadata.rs)
MetadataFields(I) ==
  << Field("permissions", "Vec<String>"), Field("excluded_permissions", "Vec<String>"),
     Field("interactions", I) >>

\* struct MetadataWithActions (metadata.rs)
MetadataWithActionsFields(A, M) ==
  << Field("iq_by_action", A), Flat("metadata", M) >>

\* struct MetadataWithFeatures (metadata.rs)
MetadataWithFeaturesFields(M) ==
  << Field("features", "Vec<String>"), Flat("metadata", M) >>

\* struct MetadataWithRelationships (metadata.rs)
MetadataWithRelationshipsFields(R, M) ==
  << Field("relationships", R), Flat("metadata", M) >>

\* struct AnnotationInteractions (metadata.rs)
AnnotationInteractionsFields ==
  << Field("cosign", "bool"), Field("pyong", "bool"), Field("vote", "Option<Vote>") >>

\* struct UserInteractions (metadata.rs)
UserInteractionsFields ==
  << Field("following", "bool") >>

\* struct SongInteractions (metadata.rs)
SongInteractionsFields ==
  << Field("following", "bool"), Field("pyong", "bool") >>

\* struct AnnotationActions (metadata.rs)
AnnotationActionsFields ==
  << Skip("accept", "Option<PrimaryAction>"), Skip("reject", "Option<PrimaryAction>"),
     Skip("delete", "Option<PrimaryAction>") >>

\* struct SongActions (metadata.rs)
SongActionsFields ==
  << Skip("edit_metadata", "Option<PrimaryAction>"),
     Skip("answer_question", "Option<PrimaryAction>") >>

\* struct SongRelationships (metadata.rs)
SongRelationshipsFields ==
  << Skip("pinned_role", "Option<String>") >>

\* struct PrimaryAction (metadata.rs)
PrimaryActionFields ==
  << Field("primary", "Action") >>

\* struct Action (metadata.rs)
ActionFields ==
  << Field("applicable", "bool"), Field("base", "f32"), Field("multiplier", "u32") >>

\* struct Text (mod.rs)
TextFields ==
  << Field("plain", "String"), Field("html", "String") >>

\* struct Referent (referent.rs)
ReferentFields ==
  << Field("annotations", "Vec<Annotation>"), Flat("core", "ReferentCore"), Extra >>

\* struct ReferentCore (referent.rs)
ReferentCoreFields ==
  << Field("_type", "ReferentType"), Skip("featured", "Option<bool>"),
     Field("annotator_id", "u32"), Field("annotator_login", "String"),
     Field("api_path", "String"), Field("classification", "String"),
     Field("fragment", "String"), Field("id", "u32"), Field("is_description", "bool"),
     Field("path", "String"), Field("range", "Range"), Field("song_id", "Option<u32>"),
     Field("url", "String"), Field("verified_annotator_ids", "Vec<u32>"),
     Field("annotatable", "Annotatable") >>

\* struct Range (referent.rs)
RangeFields ==
  << Skip("start", "Option<String>"), Skip("startOffset", "Option<String>"),
     Skip("end", "Option<String>"), Skip("endOffset", "Option<String>"),
     Skip("before", "Option<String>"), Skip("after", "Option<String>"),
     Field("content", "String") >>

\* struct Annotatable (referent.rs)
AnnotatableFields ==
  << Field("api_path", "String"), Field("context", "Option<String>"), Field("id", "u32"),
     Field("image_url", "String"), Field("link_title", "String"), Field("title", "String"),
     Field("type", "String"), Field("url", "String"),
     Skip("client_timestamps", "Option<Timestamps>") >>

\* struct Timestamps (referent.rs)
TimestampsFields ==
  << Field("updated_by_human_at", "DateTime<Utc>"),
     Field("lyrics_updated_at", "DateTime<Utc>") >>

\* enum Hit (search.rs), tagged by "type"
HitVariants ==
  << Field("song", "HitCore<SongCoreWithRDC<SongCoreStats>>") >>

\* struct HitCore (search.rs)
HitCoreFields(R) ==
  << Field("highlights", "Vec<()>"), Field("index", "HitIndex"), Field("result", R), Extra >>

\* struct Song (song.rs)
SongFields ==
  << Field("apple_music_id", "Option<String>"), Field("apple_music_player_url", "String"),
     Field("current_user_metadata", "SongMetadata"), Field("description", "Text"),
     Field("embed_content", "String"), Field("featured_video", "bool"),
     Field("language", "Option<String>"),
     Field("lyrics_placeholder_reason", "Option<String>"),
     Field("recording_location", "Option<String>"), Field("release_date", "Option<String>"),
     Field("album", "Option<Album>"), Field("custom_performances", "Vec<Performance>"),
     Field("description_annotation", "Referent"),
     Field("lyrics_marked_complete_by", "Option<UserCore<UserInteractionMetadata>>"),
     Field("lyrics_marked_staff_approved_by", "Option<UserCore<UserInteractionMetadata>>"),
     Field("media", "Vec<Media>"), Field("producer_artists", "Vec<ArtistCoreNoMetadata>"),
     Field("song_relationships", "Vec<SongRelationship>"),
     Field("translation_songs", "Vec<TranslationSong>"),
     Field("verified_annotations_by", "Vec<UserCore<UserInteractionMetadata>>"),
     Field("verified_contributors", "Vec<Contribution>"),
     Field("verified_lyrics_by", "Vec<UserCore<UserInteractionMetadata>>"),
     Field("writer_artists", "Vec<ArtistCoreNoMetadata>"),
     Flat("core", "SongCore<SongStats>"), Extra >>

\* struct Audio (song.rs)
AudioFields ==
  << Skip("attribution", "Option<String>"), Skip("native_uri", "Option<String>"),
     Field("provider", "String"), Field("url", "String") >>

\* struct Video (song.rs)
VideoFields ==
  << Field("provider", "String"), Field("url", "String"), Skip("start", "Option<u32>") >>

\* struct SongRelationship (song.rs)
SongRelationshipFields ==
  << Field("type", "RelationshipType"), Field("relationship_type", "RelationshipType"),
     Field("url", "Option<String>"), Field("songs", "Vec<SongCoreWithRDC<SongCoreStats>>") >>

\* enum RelationshipType (song.rs)
RelationshipTypeVariants ==
  << "samples", "sampled_in", "interpolates", "interpolated_by", "cover_of", "covered_by",
     "remix_of", "remixed_by", "live_version_of", "performed_live_as", "translation_of",
     "translations", "unknown" >>

\* struct Contribution (song.rs)
ContributionFields ==
  << Field("contributions", "Vec<String>"), Field("artist", "ArtistCoreNoMetadata"),
     Field("user", "Option<UserCore<UserInteractionMetadata>>") >>

\* struct SongStats (song.rs)
SongStatsFields ==
  << Field("accepted_annotations", "u32"), Field("contributors", "u32"),
     Field("iq_earners", "u32"), Field("transcribers", "u32"),
     Field("verified_annotations", "u32"), Flat("core", "SongCoreStats") >>

\* struct SongCoreStats (song.rs)
SongCoreStatsFields ==
  << Skip("concurrents", "Option<u16>"), Skip("pageviews", "Option<u32>"),
     Field("unreviewed_annotations", "u32"), Field("hot", "bool") >>

\* struct Performance (song.rs)
PerformanceFields ==
  << Field("label", "String"), Field("artists", "Vec<ArtistCoreNoMetadata>") >>

\* struct Album (song.rs)
AlbumFields ==
  << Field("api_path", "String"), Field("cover_art_url", "String"),
     Field("full_title", "String"), Field("id", "u32"), Field("name", "String"),
     Field("release_date_for_display", "Option<String>"), Field("url", "String"),
     Field("artist", "ArtistCoreNoMetadata"), Extra >>

\* struct SongCoreWithRDC (song.rs)
SongCoreWithRDCFields(S) ==
  << Field("release_date_components", "Option<DateComponents>"),
     Flat("core", "SongCore<" \o S \o ">") >>

\* struct SongCore (song.rs)
SongCoreFields(S) ==
  << Field("annotation_count", "u32"), Field("artist_names", "String"),
     Field("full_title", "String"), Field("header_image_thumbnail_url", "String"),
     Field("header_image_url", "String"), Field("lyrics_owner_id", "u32"),
     Field("pyongs_count", "Option<u32>"), Field("relationships_index_url", "String"),
     Field("release_date_for_display", "Option<String>"),
     Field("release_date_with_abbreviated_month_for_display", "Option<String>"),
     Field("song_art_image_thumbnail_url", "String"), Field("song_art_image_url", "String"),
     Field("stats", S), Field("title_with_featured", "String"),
     Field("featured_artists", "Vec<ArtistCoreNoMetadata>"),
     Field("primary_artist", "ArtistCoreNoMetadata"), Flat("essential", "SongEssential"),
     Extra >>

\* struct DateComponents (song.rs)
DateComponentsFields ==
  << Field("year", "u16"), Field("month", "Option<u8>"), Field("day", "Option<u8>") >>

\* struct TranslationSong (song.rs)
TranslationSongFields ==
  << Field("language", "Option<String>"), Flat("essential", "SongEssential") >>

\* struct SongEssential (song.rs)
SongEssentialFields ==
  << Field("api_path", "String"), Field("id", "u32"), Field("lyrics_state", "String"),
     Field("path", "String"), Field("title", "String"), Field("url", "String") >>

\* struct User (user.rs)
UserFields ==
  << Field("about_me", "Text"), Field("custom_header_image_url", "Option<String>"),
     Field("followed_users_count", "u32"), Field("followers_count", "u32"),
     Field("iq_for_display", "String"), Field("photo_url", "Option<String>"),
     Field("roles_for_display", "Vec<Role>"), Field("stats", "Stats"),
     Field("artist", "Option<ArtistCore>"), Flat("core", "UserCore<UserMetadata>"), Extra >>

\* struct UserCore (user.rs)
UserCoreFields(M) ==
  << Field("api_path", "String"), Field("avatar", "Avatar"),
     Field("header_image_url", "String"),
     Field("human_readable_role_for_display", "Option<String>"), Field("id", "u32"),
     Field("iq", "i32"), Field("login", "String"), Field("name", "String"),
     Field("role_for_display", "Option<Role>"), Field("url", "String"),
     Field("current_user_metadata", M) >>

\* struct Avatar (user.rs)
AvatarFields ==
  << Field("tiny", "Image"), Field("thumb", "Image"), Field("small", "Image"),
     Field("medium", "Image") >>

\* struct Image (user.rs)
ImageFields ==
  << Field("url", "String"), Field("bounding_box", "BoundingBox") >>

\* struct BoundingBox (user.rs)
BoundingBoxFields ==
  << Field("width", "u16"), Field("height", "u16") >>

\* struct Stats (user.rs)
StatsFields ==
  << Field("annotations_count", "u32"), Field("answers_count", "u32"),
     Field("comments_count", "u32"), Field("forum_posts_count", "u32"),
     Field("pyongs_count", "u32"), Field("questions_count", "u32"),
     Field("transcriptions_count", "u32") >>

\* struct WebPage (webpage.rs)
WebPageFields ==
  << Field("api_path", "Option<String>"), Field("domain", "String"),
     Field("id", "Option<u32>"), Field("normalized_url", "String"),
     Field("share_url", "String"), Field("title", "String"), Field("url", "String"),
     Field("annotation_count", "u32"), Extra >>

OptionTypes ==
  { "Option<ErrorResponse>", "Option<String>", "Option<ArtistCore>", "Option<u32>",
     "Option<Role>", "Option<RejectionComment>", "Option<RejectionReason>",
     "Option<UserCore<Metadata<UserInteractions>>>", "Option<PrimaryAction>", "Option<Vote>",
     "Option<bool>", "Option<Timestamps>", "Option<UserCore<UserInteractionMetadata>>",
     "Option<DateComponents>", "Option<u8>", "Option<u16>", "Option<Album>" }

VecTypes ==
  { "Vec<Role>", "Vec<String>", "Vec<UserCore<Metadata<UserInteractions>>>",
     "Vec<Attributions>", "Vec<u32>", "Vec<Annotation>", "Vec<Referent>", "Vec<Hit>",
     "Vec<()>", "Vec<ArtistCoreNoMetadata>", "Vec<Performance>", "Vec<Media>",
     "Vec<SongRelationship>", "Vec<SongCoreWithRDC<SongCoreStats>>", "Vec<TranslationSong>",
     "Vec<UserCore<UserInteractionMetadata>>", "Vec<Contribution>" }

\* the type inside an Option or a Vec
Elem(ty) ==
  CASE ty = "Option<ErrorResponse>" -> "ErrorResponse"
    [] ty = "Option<String>" -> "String"
    [] ty = "Option<ArtistCore>" -> "ArtistCore"
    [] ty = "Option<u32>" -> "u32"
    [] ty = "Option<Role>" -> "Role"
    [] ty = "Option<RejectionComment>" -> "RejectionComment"
    [] ty = "Option<RejectionReason>" -> "RejectionReason"
    [] ty = "Option<UserCore<Metadata<UserInteractions>>>" -> "UserCore<Metadata<UserInteractions>>"
    [] ty = "Option<PrimaryAction>" -> "PrimaryAction"
    [] ty = "Option<Vote>" -> "Vote"
    [] ty = "Option<bool>" -> "bool"
    [] ty = "Option<Timestamps>" -> "Timestamps"
    [] ty = "Option<UserCore<UserInteractionMetadata>>" -> "UserCore<UserInteractionMetadata>"
    [] ty = "Option<DateComponents>" -> "DateComponents"
    [] ty = "Option<u8>" -> "u8"
    [] ty = "Option<u16>" -> "u16"
    [] ty = "Option<Album>" -> "Album"
    [] ty = "Vec<Role>" -> "Role"
    [] ty = "Vec<String>" -> "String"
    [] ty = "Vec<UserCore<Metadata<UserInteractions>>>" -> "UserCore<Metadata<UserInteractions>>"
    [] ty = "Vec<Attributions>" -> "Attributions"
    [] ty = "Vec<u32>" -> "u32"
    [] ty = "Vec<Annotation>" -> "Annotation"
    [] ty = "Vec<Referent>" -> "Referent"
    [] ty = "Vec<Hit>" -> "Hit"
    [] ty = "Vec<()>" -> "()"
    [] ty = "Vec<ArtistCoreNoMetadata>" -> "ArtistCoreNoMetadata"
    [] ty = "Vec<Performance>" -> "Performance"
    [] ty = "Vec<Media>" -> "Media"
    [] ty = "Vec<SongRelationship>" -> "SongRelationship"
    [] ty = "Vec<SongCoreWithRDC<SongCoreStats>>" -> "SongCoreWithRDC<SongCoreStats>"
    [] ty = "Vec<TranslationSong>" -> "TranslationSong"
    [] ty = "Vec<UserCore<UserInteractionMetadata>>" -> "UserCore<UserInteractionMetadata>"
    [] ty = "Vec<Contribution>" -> "Contribution"

EnumTypes ==
  { "Role", "AnnotationState", "Vote", "ReferentType", "HitIndex", "RelationshipType" }

\* the names of the variants of a unit-only enum, as serde writes them
Variants(ty) ==
  CASE ty = "Role" -> << "regulator", "staff", "verified_artist", "moderator", "editor", "mediator", "contributor", "transcriber" >>
    [] ty = "AnnotationState" -> AnnotationStateVariants
    [] ty = "Vote" -> << "up", "down" >>
    [] ty = "ReferentType" -> << "referent" >>
    [] ty = "HitIndex" -> << "song" >>
    [] ty = "RelationshipType" -> RelationshipTypeVariants

TaggedTypes ==
  { "Hit", "Media" }

\* the variants of an internally tagged enum: the value of the tag and the
\* type of the content
TaggedVariants(ty) ==
  CASE ty = "Hit" -> HitVariants
    [] ty = "Media" -> << Field("audio", "Audio"), Field("video", "Video") >>

StructTypes ==
  { "AccountResponse", "Account", "User", "Text", "Stats", "ArtistCore",
     "ArtistCoreNoMetadata", "UserInteractionMetadata", "Metadata<UserInteractions>",
     "UserInteractions", "UserCore<UserMetadata>", "Avatar", "Image", "BoundingBox",
     "UserMetadata", "MetadataWithFeatures<Metadata<UserInteractions>>",
     "AnnotationResponse", "Annotation", "RejectionComment",
     "UserCore<UserInteractionMetadata>", "RejectionReason",
     "UserCore<Metadata<UserInteractions>>", "Attributions", "AnnotationMetadata",
     "MetadataWithActions<AnnotationActions, Metadata<AnnotationInteractions>>",
     "AnnotationActions", "PrimaryAction", "Action", "Metadata<AnnotationInteractions>",
     "AnnotationInteractions", "ReferentCore", "Range", "Annotatable", "Timestamps",
     "ArtistResponse", "Artist", "Referent", "SongInteractions", "SongActions",
     "SongRelationships", "ErrorResponse", "SuccessMeta", "ErrorMeta", "ReferentsResponse",
     "SearchResponse", "HitCore<SongCoreWithRDC<SongCoreStats>>",
     "SongCoreWithRDC<SongCoreStats>", "DateComponents", "SongCore<SongCoreStats>",
     "SongCoreStats", "SongEssential", "SongResponse", "Song", "SongMetadata",
     "MetadataWithActions<SongActions, MetadataWithRelationships<SongRelationships, Metadata<SongInteractions>>>",
     "MetadataWithRelationships<SongRelationships, Metadata<SongInteractions>>",
     "Metadata<SongInteractions>", "Album", "Performance", "Audio", "Video",
     "SongRelationship", "TranslationSong", "Contribution", "SongCore<SongStats>",
     "SongStats", "UserResponse", "WebPageResponse", "WebPage" }

\* the fields a struct type declares (type aliases resolved, type parameters
\* filled in)
Declared(ty) ==
  CASE ty = "AccountResponse" -> << Field("user", "Account") >>
    [] ty = "Account" -> AccountFields
    [] ty = "User" -> UserFields
    [] ty = "Text" -> TextFields
    [] ty = "Stats" -> StatsFields
    [] ty = "ArtistCore" -> ArtistCoreFields
    [] ty = "ArtistCoreNoMetadata" -> ArtistCoreNoMetadataFields
    [] ty = "UserInteractionMetadata" -> MetadataFields("UserInteractions")
    [] ty = "Metadata<UserInteractions>" -> MetadataFields("UserInteractions")
    [] ty = "UserInteractions" -> UserInteractionsFields
    [] ty = "UserCore<UserMetadata>" -> UserCoreFields("UserMetadata")
    [] ty = "Avatar" -> AvatarFields
    [] ty = "Image" -> ImageFields
    [] ty = "BoundingBox" -> BoundingBoxFields
    [] ty = "UserMetadata" -> MetadataWithFeaturesFields("Metadata<UserInteractions>")
    [] ty = "MetadataWithFeatures<Metadata<UserInteractions>>" -> MetadataWithFeaturesFields("Metadata<UserInteractions>")
    [] ty = "AnnotationResponse" -> << Field("annotation", "Annotation"), Field("referent", "ReferentCore") >>
    [] ty = "Annotation" -> AnnotationFields
    [] ty = "RejectionComment" -> RejectionCommentFields
    [] ty = "UserCore<UserInteractionMetadata>" -> UserCoreFields("UserInteractionMetadata")
    [] ty = "RejectionReason" -> RejectionReasonFields
    [] ty = "UserCore<Metadata<UserInteractions>>" -> UserCoreFields("Metadata<UserInteractions>")
    [] ty = "Attributions" -> AttributionsFields
    [] ty = "AnnotationMetadata" -> MetadataWithActionsFields("AnnotationActions", "Metadata<AnnotationInteractions>")
    [] ty = "MetadataWithActions<AnnotationActions, Metadata<AnnotationInteractions>>" -> MetadataWithActionsFields("AnnotationActions", "Metadata<AnnotationInteractions>")
    [] ty = "AnnotationActions" -> AnnotationActionsFields
    [] ty = "PrimaryAction" -> PrimaryActionFields
    [] ty = "Action" -> ActionFields
    [] ty = "Metadata<AnnotationInteractions>" -> MetadataFields("AnnotationInteractions")
    [] ty = "AnnotationInteractions" -> AnnotationInteractionsFields
    [] ty = "ReferentCore" -> ReferentCoreFields
    [] ty = "Range" -> RangeFields
    [] ty = "Annotatable" -> AnnotatableFields
    [] ty = "Timestamps" -> TimestampsFields
    [] ty = "ArtistResponse" -> << Field("artist", "Artist") >>
    [] ty = "Artist" -> ArtistFields
    [] ty = "Referent" -> ReferentFields
    [] ty = "SongInteractions" -> SongInteractionsFields
    [] ty = "SongActions" -> SongActionsFields
    [] ty = "SongRelationships" -> SongRelationshipsFields
    [] ty = "ErrorResponse" -> << Field("error", "String") >>
    [] ty = "SuccessMeta" -> << Field("status", "u16") >>
    [] ty = "ErrorMeta" -> << Field("status", "u16"), Field("message", "String") >>
    [] ty = "ReferentsResponse" -> << Field("referents", "Vec<Referent>") >>
    [] ty = "SearchResponse" -> << Field("hits", "Vec<Hit>") >>
    [] ty = "HitCore<SongCoreWithRDC<SongCoreStats>>" -> HitCoreFields("SongCoreWithRDC<SongCoreStats>")
    [] ty = "SongCoreWithRDC<SongCoreStats>" -> SongCoreWithRDCFields("SongCoreStats")
    [] ty = "DateComponents" -> DateComponentsFields
    [] ty = "SongCore<SongCoreStats>" -> SongCoreFields("SongCoreStats")
    [] ty = "SongCoreStats" -> SongCoreStatsFields
    [] ty = "SongEssential" -> SongEssentialFields
    [] ty = "SongResponse" -> << Field("song", "Song") >>
    [] ty = "Song" -> SongFields
    [] ty = "SongMetadata" -> MetadataWithActionsFields("SongActions", "MetadataWithRelationships<SongRelationships, Metadata<SongInteractions>>")
    [] ty = "MetadataWithActions<SongActions, MetadataWithRelationships<SongRelationships, Metadata<SongInteractions>>>" -> MetadataWithActionsFields("SongActions", "MetadataWithRelationships<SongRelationships, Metadata<SongInteractions>>")
    [] ty = "MetadataWithRelationships<SongRelationships, Metadata<SongInteractions>>" -> MetadataWithRelationshipsFields("SongRelationships", "Metadata<SongInteractions>")
    [] ty = "Metadata<SongInteractions>" -> MetadataFields("SongInteractions")
    [] ty = "Album" -> AlbumFields
    [] ty = "Performance" -> PerformanceFields
    [] ty = "Audio" -> AudioFields
    [] ty = "Video" -> VideoFields
    [] ty = "SongRelationship" -> SongRelationshipFields
    [] ty = "TranslationSong" -> TranslationSongFields
    [] ty = "Contribution" -> ContributionFields
    [] ty = "SongCore<SongStats>" -> SongCoreFields("SongStats")
    [] ty = "SongStats" -> SongStatsFields
    [] ty = "UserResponse" -> << Field("user", "User") >>
    [] ty = "WebPageResponse" -> << Field("web_page", "WebPage") >>
    [] ty = "WebPage" -> WebPageFields

\* Success with its response field left optional
SuccessFieldsNoResponse(T) == <<Field("meta", "SuccessMeta")>>

\* the fields of the three variants of Response<T>
SuccessFields(T) == <<Field("meta", "SuccessMeta"), Field("response", T)>>
ErrorFields == <<Field("meta", "ErrorMeta"), Field("response", "Option<ErrorResponse>")>>
OtherFields == <<Field("error", "String"), Field("error_description", "String")>>

\* the fields of a build with the catchall feature, whatever the build
FieldsWithExtra(ty) == Declared(ty)

\* the fields of a build without the catchall feature, whatever the build
FieldsWithoutExtra(ty) == SelectSeq(Declared(ty), LAMBDA f : ~f.cfg)

\* the fields of a struct type in the build at hand: extra exists only with
\* the catchall feature
Fields(ty) == SelectSeq(Declared(ty), LAMBDA f : f.cfg => codec.catchall)

\* the struct has a flattened field: its deserializer reads a map and buffers
\* the keys that are not its own
HasFlatten(ty) == \E i \in 1 .. Len(Fields(ty)) : Fields(ty)[i].flatten

\* the keys of the fields that are not flattened
Own(ty) == {Fields(ty)[i].name : i \in {j \in 1 .. Len(Fields(ty)) : ~Fields(ty)[j].flatten}}

\* the keys that are out of the buffer when the i-th field, a flattened one, is
\* read: the struct's own keys, and the keys taken by the flattened structs
\* before it.  A flattened struct with no flattened field of its own takes its
\* keys out of the buffer (deserialize_struct); one that has flattened fields,
\* and the extra bag, read the buffer and leave it whole (deserialize_map).
Taken(ty, i) ==
  Own(ty) \cup UNION {Own(Fields(ty)[j].ty) :
                        j \in {x \in 1 .. i - 1 : /\ Fields(ty)[x].flatten
                                                  /\ Fields(ty)[x].ty \in StructTypes
                                                  /\ ~HasFlatten(Fields(ty)[x].ty)}}

\* the map m without the keys in S
Without(m, S) == [key \in DOMAIN m \ S |-> m[key]]

(***************************************************************************)
(* Deserialize.  Matches(ty, v): the derived deserializer of ty accepts    *)
(* the JSON value v.  A struct takes an object holding each of its fields  *)
(* (keys it does not know are skipped, a missing Option field is None) or, *)
(* when it has no flattened field, an array giving exactly its fields in   *)
(* order.                                                                  *)
(***************************************************************************)
RECURSIVE Matches(_, _)
RECURSIVE MatchesMap(_, _)
RECURSIVE FieldsMatchMap(_, _)
RECURSIVE FieldsMatchSeq(_, _)

FieldsMatchMap(fields, v) ==
  /\ v.k = "obj"
  /\ \A i \in 1 .. Len(fields) :
       IF fields[i].name \in DOMAIN v.v
         THEN Matches(fields[i].ty, v.v[fields[i].name])
         ELSE fields[i].ty \in OptionTypes

FieldsMatchSeq(fields, v) ==
  /\ v.k = "seq"
  /\ Len(v.v) = Len(fields)
  /\ \A i \in 1 .. Len(fields) : Matches(fields[i].ty, v.v[i])

\* the struct ty accepts the entries m of an object
MatchesMap(ty, m) ==
  \A i \in 1 .. Len(Fields(ty)) :
    LET f == Fields(ty)[i]
    IN  IF ~f.flatten
          THEN IF f.name \in DOMAIN m THEN Matches(f.ty, m[f.name]) ELSE f.ty \in OptionTypes
          ELSE f.ty \in StructTypes => MatchesMap(f.ty, Without(m, Taken(ty, i)))

\* an enum that takes any string
MatchesEnumAnyString(names, v) == v.k = "str"

\* an enum of unit variants takes the name of a variant, or an object with
\* the name as its only key and null under it
MatchesEnum(names, v) ==
  \/ v.k = "str" /\ \E i \in 1 .. Len(names) : names[i] = v.v
  \/ /\ v.k = "obj"
     /\ \E i \in 1 .. Len(names) : DOMAIN v.v = {names[i]} /\ v.v[names[i]].k = "null"

\* the first variant, whatever the tag
TagIndexFirst(variants, tag) == {1}

\* the variant of an internally tagged enum that the tag value names, if any
TagIndex(variants, tag) == {i \in 1 .. Len(variants) : variants[i].name = tag}

Matches(ty, v) ==
  CASE v.k = "ent" -> ty \in EntityTypes /\ v.ty = ty
    [] ty = "u8" -> v.k = "num" /\ v.v \in 0 .. U8Max
    [] ty = "u16" -> v.k = "num" /\ v.v \in 0 .. U16Max
    [] ty = "u32" -> v.k = "num" /\ v.v >= 0
    [] ty = "i32" -> v.k = "num"
    [] ty = "DateTime<Utc>" -> v.k = "num"
    [] ty \in {"f32", "f64"} -> v.k \in {"num", "float"}
    [] ty = "bool" -> v.k = "bool"
    [] ty = "String" -> v.k = "str"
    [] ty = "char" -> v.k = "str" /\ Len(v.v) = 1
    [] ty = "()" -> v.k = "null"
    [] ty \in OptionTypes -> v.k = "null" \/ Matches(Elem(ty), v)
    [] ty \in VecTypes -> v.k = "seq" /\ \A i \in 1 .. Len(v.v) : Matches(Elem(ty), v.v[i])
    [] ty \in EnumTypes -> MatchesEnum(Variants(ty), v)
    [] ty \in TaggedTypes ->
         /\ v.k = "obj"
         /\ "type" \in DOMAIN v.v
         /\ v.v["type"].k = "str"
         /\ \E i \in TagIndex(TaggedVariants(ty), v.v["type"].v) :
              Matches(TaggedVariants(ty)[i].ty, JObj(Without(v.v, {"type"})))
    [] OTHER ->
         \/ v.k = "obj" /\ MatchesMap(ty, v.v)
         \/ ~HasFlatten(ty) /\ FieldsMatchSeq(Fields(ty), v)

\* the JSON value a struct's i-th field is read from (null for a missing Option)
FieldValue(fields, i, v) ==
  IF v.k = "seq" THEN v.v[i]
  ELSE IF fields[i].name \in DOMAIN v.v THEN v.v[fields[i].name]
  ELSE JNull

FieldNames(fields) == {fields[i].name : i \in 1 .. Len(fields)}
FieldIndex(fields, n) == CHOOSE i \in 1 .. Len(fields) : fields[i].name = n

\* an f32 holds a number of tenths exactly when it is a whole number of halves;
\* any other is rounded to the nearest single
ToF32(x) == IF x.v % 5 = 0 \/ "nearest" \in DOMAIN x THEN x ELSE [k |-> "float", v |-> x.v, nearest |-> "f32"]

\* the number a float field holds for a JSON number
ToFloat(v) == IF v.k = "num" THEN [k |-> "float", v |-> 10 * v.v] ELSE v

\* the value the deserializer builds from a JSON value it accepts
RECURSIVE Decoded(_, _)
RECURSIVE DecodedMap(_, _)
DecodedFields(fields, v) ==
  [n \in FieldNames(fields) |->
     Decoded(fields[FieldIndex(fields, n)].ty, FieldValue(fields, FieldIndex(fields, n), v))]

\* the struct built from the entries m of an object: a field per key, and per
\* flattened field the struct or the bag read from the buffer
DecodedMap(ty, m) ==
  [n \in FieldNames(Fields(ty)) |->
     LET i == FieldIndex(Fields(ty), n)
         f == Fields(ty)[i]
     IN  IF ~f.flatten
           THEN Decoded(f.ty, IF n \in DOMAIN m THEN m[n] ELSE JNull)
           ELSE IF f.ty \in StructTypes
                  THEN DecodedMap(f.ty, Without(m, Taken(ty, i)))
                  ELSE Without(m, Taken(ty, i))]

Decoded(ty, v) ==
  CASE v.k = "ent" -> [entity |-> ty]
    [] ty \in {"u8", "u16", "u32", "i32", "DateTime<Utc>", "bool", "String", "char"} -> v.v
    [] ty = "f64" -> ToFloat(v)
    [] ty = "f32" -> ToF32(ToFloat(v))
    [] ty = "()" -> <<>>
    [] ty \in OptionTypes -> IF v.k = "null" THEN None ELSE Some(Decoded(Elem(ty), v))
    [] ty \in VecTypes -> [i \in 1 .. Len(v.v) |-> Decoded(Elem(ty), v.v[i])]
    [] ty \in EnumTypes -> IF v.k = "str" THEN v.v ELSE CHOOSE n \in DOMAIN v.v : TRUE
    [] ty \in TaggedTypes ->
         [variant |-> v.v["type"].v,
          value |-> Decoded(TaggedVariants(ty)[CHOOSE i \in TagIndex(TaggedVariants(ty), v.v["type"].v) : TRUE].ty,
                            JObj(Without(v.v, {"type"})))]
    [] OTHER -> IF v.k = "obj" THEN DecodedMap(ty, v.v) ELSE DecodedFields(Fields(ty), v)

(***************************************************************************)
(* Serialize into a serde_json::Value (to_value).  A key written twice     *)
(* keeps the value written last.                                           *)
(***************************************************************************)
RECURSIVE Encoded(_, _)
RECURSIVE EncodedFrom(_, _, _)

\* the entries written by the fields i .. of the struct d, after those of the
\* fields before i
EncodedFrom(ty, d, i) ==
  IF i = 0 THEN [key \in {} |-> JNull]
  ELSE LET f == Fields(ty)[i]
           before == EncodedFrom(ty, d, i - 1)
       IN  IF ~f.flatten
             THEN IF f.skip /\ d[f.name] = None
                    THEN before
                    ELSE (f.name :> Encoded(f.ty, d[f.name])) @@ before
             ELSE IF f.ty \in StructTypes
                    THEN EncodedFrom(f.ty, d[f.name], Len(Fields(f.ty))) @@ before
                    ELSE d[f.name] @@ before

Encoded(ty, d) ==
  CASE ty \in {"u8", "u16", "u32", "i32", "DateTime<Utc>"} -> JNum(d)
    [] ty \in {"f32", "f64"} -> d
    [] ty = "bool" -> JBool(d)
    [] ty \in {"String", "char"} -> JStr(d)
    [] ty = "()" -> JNull
    [] ty \in OptionTypes -> IF d = None THEN JNull ELSE Encoded(Elem(ty), d.v)
    [] ty \in VecTypes -> JArr([i \in 1 .. Len(d) |-> Encoded(Elem(ty), d[i])])
    [] ty \in EnumTypes -> JStr(d)
    [] ty \in TaggedTypes ->
         JObj(Encoded(TaggedVariants(ty)[CHOOSE i \in TagIndex(TaggedVariants(ty), d.variant) : TRUE].ty,
                      d.value).v
              @@ ("type" :> JStr(d.variant)))
    [] OTHER -> IF DOMAIN d = {"entity"} THEN JEnt(ty)
                ELSE JObj(EncodedFrom(ty, d, Len(Fields(ty))))

(***************************************************************************)
(* Response<T>: an untagged enum.  Each variant is a struct variant, which *)
(* takes an object only; the variants are tried in declaration order and   *)
(* the first that accepts the body is the result.                          *)
(***************************************************************************)
MatchesSuccess(T, body) == FieldsMatchMap(SuccessFields(T), body)
MatchesError(body) == FieldsMatchMap(ErrorFields, body)
MatchesOther(body) == FieldsMatchMap(OtherFields, body)

Variant(name, fields, body) == [variant |-> name] @@ DecodedFields(fields, body)

Ok(x) == [kind |-> "Ok", value |-> x]
Err(e) == [kind |-> "Err", err |-> e]
NoResult == [kind |-> "none"]

\* the variants tried with Other ahead of Error
DeserializeResponseOtherFirst(T, body) ==
  IF MatchesSuccess(T, body) THEN Ok(Variant("Success", SuccessFields(T), body))
  ELSE IF MatchesOther(body) THEN Ok(Variant("Other", OtherFields, body))
  ELSE IF MatchesError(body) THEN Ok(Variant("Error", ErrorFields, body))
  ELSE Err("JsonError")

\* a decoder that knows the Success variant only
DeserializeResponseSuccessOnly(T, body) ==
  IF MatchesSuccess(T, body) THEN Ok(Variant("Success", SuccessFields(T), body))
  ELSE Err("JsonError")

\* Response::<T>::deserialize on a JSON document
DeserializeResponse(T, body) ==
  IF MatchesSuccess(T, body) THEN Ok(Variant("Success", SuccessFields(T), body))
  ELSE IF MatchesError(body) THEN Ok(Variant("Error", ErrorFields, body))
  ELSE IF MatchesOther(body) THEN Ok(Variant("Other", OtherFields, body))
  ELSE Err("JsonError")

\* a decode failure reported with the error kind of the transport
FromSliceAsHttpError(T, text) ==
  IF text.k = "invalid" \/ DeserializeResponse(T, text).kind = "Err"
    THEN Err("HttpError")
    ELSE DeserializeResponse(T, text)

\* serde_json::from_slice::<Response<T>> on the buffered bytes
FromSlice(T, text) ==
  IF text.k = "invalid" THEN Err("JsonError") ELSE DeserializeResponse(T, text)

(***************************************************************************)
(* Query parameters and endpoint paths (the endpoint methods of Client).   *)
(***************************************************************************)
Digits == <<"0", "1", "2", "3", "4", "5", "6", "7", "8", "9">>

\* to_string / {} of an unsigned integer: its decimal form
RECURSIVE Decimal(_)
Decimal(n) == IF n < 10 THEN Digits[n + 1] ELSE Decimal(n \div 10) \o Digits[(n % 10) + 1]

\* the two formats in the other order
TextFormatPlainHtml == <<"text_format", "plain,html">>

TextFormat == <<"text_format", "html,plain">>

\* ReferentAssociation
SongId(n) == [tag |-> "SongId", id |-> n]
WebPageId(n) == [tag |-> "WebPageId", id |-> n]
Associations == {SongId(n) : n \in Ids} \cup {WebPageId(n) : n \in Ids}

\* a push that leaves out an argument that is zero
PushIfNonZero(queries, opt, key) ==
  IF opt.k = "some" /\ opt.v # "0" THEN Append(queries, <<key, opt.v>>) ELSE queries

\* a push that sends an empty value for an argument that is None
PushOrEmpty(queries, opt, key) ==
  IF opt.k = "some" THEN Append(queries, <<key, opt.v>>) ELSE Append(queries, <<key, "">>)

\* queries.push(pair) when the argument is Some
PushIf(queries, opt, key) ==
  IF opt.k = "some" THEN Append(queries, <<key, opt.v>>) ELSE queries

\* a match whose two arms name the same key
AssociationParamsSongOnly(association) == <<"song_id", Decimal(association.id)>>

\* the match over the association in Client::referents
AssociationParams(association) ==
  IF association.tag = "SongId"
    THEN <<"song_id", Decimal(association.id)>>
    ELSE <<"web_page_id", Decimal(association.id)>>

OptDecimal(opt) == IF opt.k = "some" THEN Some(Decimal(opt.v)) ELSE None

\* the queries vector with page pushed ahead of per_page
ReferentsQueriesPageFirst(created_by, associated, per_page, page) ==
  LET q0 == <<TextFormat>>
      q1 == PushIf(q0, OptDecimal(created_by), "created_by_id")
      q2 == IF associated.k = "some" THEN Append(q1, AssociationParams(associated.v)) ELSE q1
      q3 == PushIf(q2, OptDecimal(page), "page")
  IN  PushIf(q3, OptDecimal(per_page), "per_page")

\* the queries vector Client::referents hands to get
ReferentsQueries(created_by, associated, per_page, page) ==
  LET q0 == <<TextFormat>>
      q1 == PushIf(q0, OptDecimal(created_by), "created_by_id")
      q2 == IF associated.k = "some" THEN Append(q1, AssociationParams(associated.v)) ELSE q1
      q3 == PushIf(q2, OptDecimal(per_page), "per_page")
  IN  PushIf(q3, OptDecimal(page), "page")

\* the queries vector Client::web_pages hands to get
WebPagesQueries(raw_annotatable_url, canonical_url, og_url) ==
  LET q1 == PushIf(<<>>, raw_annotatable_url, "raw_annotatable_url")
      q2 == PushIf(q1, canonical_url, "canonical_url")
  IN  PushIf(q2, og_url, "og_url")

\* the keys of a query, and how often a pair occurs in it
Keys(query) == {query[i][1] : i \in 1 .. Len(query)}
Count(query, key) == Cardinality({i \in 1 .. Len(query) : query[i][1] = key})
Values(query, key) == {query[i][2] : i \in {j \in 1 .. Len(query) : query[j][1] = key}}

(***************************************************************************)
(* The log line of Client::get.                                            *)
(***************************************************************************)
RECURSIVE JoinPairs(_)
JoinPairs(query) ==
  IF Len(query) = 0 THEN ""
  ELSE IF Len(query) = 1 THEN query[1][1] \o "=" \o query[1][2]
  ELSE query[1][1] \o "=" \o query[1][2] \o "," \o JoinPairs(Tail(query))

LogLine(endpoint, query) ==
  "endpoint: \"" \o endpoint \o "\", queries: \"" \o JoinPairs(query) \o "\""

(***************************************************************************)
(* Objects of the data model, as the API may send them.  Sample(ty) is an  *)
(* object holding every key the type declares, the flattened structs' keys *)
(* beside the struct's own; the inputs are the sample and the objects one  *)
(* change away from it.                                                    *)
(***************************************************************************)
RECURSIVE Sample(_)
RECURSIVE SampleFrom(_, _)

\* the entries of the first i declared fields of a struct
SampleFrom(ty, i) ==
  IF i = 0 THEN [key \in {} |-> JNull]
  ELSE LET f == Declared(ty)[i]
       IN  IF ~f.flatten THEN (f.name :> Sample(f.ty)) @@ SampleFrom(ty, i - 1)
           ELSE IF f.ty \in StructTypes
                  THEN SampleFrom(f.ty, Len(Declared(f.ty))) @@ SampleFrom(ty, i - 1)
                  ELSE SampleFrom(ty, i - 1)

Sample(ty) ==
  CASE ty \in {"u8", "u16", "u32", "i32", "DateTime<Utc>"} -> JNum(1)
    [] ty \in {"f32", "f64"} -> JFloat(15)
    [] ty = "bool" -> JBool(TRUE)
    [] ty = "String" -> JStr("s")
    [] ty = "char" -> JStr("c")
    [] ty = "()" -> JNull
    [] ty \in OptionTypes -> Sample(Elem(ty))
    [] ty \in VecTypes -> JArr(<<Sample(Elem(ty))>>)
    [] ty \in EnumTypes -> JStr(Variants(ty)[1])
    [] ty \in TaggedTypes ->
         JObj(("type" :> JStr(TaggedVariants(ty)[1].name))
              @@ Sample(TaggedVariants(ty)[1].ty).v)
    [] OTHER -> JObj(SampleFrom(ty, Len(Declared(ty))))

\* the values put in the place of a key's value
Replacements == {JNull, JStr("bogus"), JNum(7), JFloat(1)}

\* a key no type declares
UnknownKey == "zz"

\* the objects one change away from the object v: a key left out, a value
\* replaced, an unknown key added
Edits(v) ==
  {JObj(Without(v.v, {key})) : key \in DOMAIN v.v}
    \cup {JObj((key :> r) @@ v.v) : key \in DOMAIN v.v, r \in Replacements}
    \cup {JObj((UnknownKey :> JNum(7)) @@ v.v)}

\* the struct written as the array of its fields in order (those that are
\* not flattened)
SeqForm(ty) ==
  LET own == SelectSeq(Declared(ty), LAMBDA f : ~f.flatten)
  IN  JArr([i \in 1 .. Len(own) |-> Sample(own[i].ty)])

\* the objects one change away from v one level down: inside an object under
\* a key, or inside the one object of an array under a key
Inside(v) ==
  UNION {{JObj((key :> e) @@ v.v) : e \in Edits(v.v[key])} :
           key \in {x \in DOMAIN v.v : v.v[x].k = "obj"}}
    \cup UNION {{JObj((key :> JArr(<<e>>)) @@ v.v) : e \in Edits(v.v[key].v[1])} :
                  key \in {x \in DOMAIN v.v : /\ v.v[x].k = "seq"
                                              /\ Len(v.v[x].v) = 1
                                              /\ v.v[x].v[1].k = "obj"}}

\* the struct written with each flattened struct under a key of its own
NestedForm(ty) ==
  LET named == SelectSeq(Declared(ty), LAMBDA f : ~f.cfg)
  IN  JObj([key \in FieldNames(named) |-> Sample(named[FieldIndex(named, key)].ty)])

\* the composed metadata types: a field of their own beside a metadata field
ComposedMetadata ==
  {ty \in StructTypes :
     \E i \in 1 .. Len(Declared(ty)) : Declared(ty)[i].name = "metadata"}

\* the objects a struct type is decoded from; a metadata object is varied one
\* level down as well
Inputs(ty) ==
  {Sample(ty), SeqForm(ty), NestedForm(ty)} \cup Edits(Sample(ty))
    \cup (IF ty \in ComposedMetadata THEN Inside(Sample(ty)) ELSE {})

(***************************************************************************)
(* The bodies the transport may deliver.                                   *)
(***************************************************************************)
EmptyObj == JObj([key \in {} |-> JNull])

\* an array of n entities
EntArr(ty, n) == JArr([i \in 1 .. n |-> JEnt(ty)])

\* payload objects that the T of each endpoint accepts
GoodPayloads(op) ==
  CASE op = "account" -> {JObj([user |-> JEnt("Account")])}
    [] op = "annotation" ->
         {JObj([annotation |-> JEnt("Annotation"), referent |-> JEnt("ReferentCore")])}
    [] op = "artist" -> {JObj([artist |-> JEnt("Artist")])}
    [] op = "referents" -> {JObj([referents |-> EntArr("Referent", n)]) : n \in 0 .. MaxLen}
    [] op = "search" -> {JObj([hits |-> JArr([i \in 1 .. n |-> Sample("Hit")])]) : n \in 0 .. MaxLen}
    [] op = "song" -> {JObj([song |-> JEnt("Song")])}
    [] op = "user" -> {JObj([user |-> JEnt("User")])}
    [] op = "web_pages" -> {JObj([web_page |-> JEnt("WebPage")])}

\* the same payloads written as arrays of the fields in order
SeqPayloads(op) ==
  {JArr([i \in 1 .. Len(Fields(PayloadType(op))) |-> p.v[Fields(PayloadType(op))[i].name]]) :
     p \in GoodPayloads(op)}

\* values of the top-level keys; Absent leaves the key out
MetaVals ==
  { Absent,
    JObj([status |-> JNum(200)]),
    JObj([status |-> JNum(404), message |-> JStr("Not found")]),
    JObj([message |-> JStr("Not found")]),
    JObj([status |-> JNum(U16Max + 1), message |-> JStr("Not found")]),
    JObj([status |-> JStr("404"), message |-> JStr("Not found")]) }

\* search payloads with a hit that is not tagged "song": another tag, no tag
OtherHits ==
  {JObj([hits |-> JArr(<<hit>>)]) :
     hit \in {JObj(("type" :> JStr("bogus")) @@ Sample("Hit").v),
               JObj(Without(Sample("Hit").v, {"type"}))}}

ResponseVals(op) ==
  GoodPayloads(op) \cup (IF op = "search" THEN OtherHits ELSE {})
    \cup {JObj(p.v @@ [error |-> JStr("e")]) : p \in GoodPayloads(op)}
    \cup { Absent, JNull, EmptyObj, JStr("r"),
           JObj([error |-> JStr("e")]),
           JObj([error |-> JNum(1)]) }

ErrorVals == {Absent, JStr("invalid_token"), JNum(1)}
DescVals == {Absent, JStr("The access token provided is invalid")}

TopKeys == {"meta", "response", "error", "error_description"}

\* the object with the given values under the four top-level keys
MkObj(m, r, e, d) ==
  LET val(key) == CASE key = "meta" -> m
                    [] key = "response" -> r
                    [] key = "error" -> e
                    [] key = "error_description" -> d
  IN  JObj([key \in {x \in TopKeys : val(x) # Absent} |-> val(key)])

\* bodies whose structs are written as arrays of their fields
SeqBodies(op) ==
  {MkObj(JArr(<<JNum(200)>>), p, Absent, Absent) : p \in GoodPayloads(op) \cup SeqPayloads(op)}
    \cup {MkObj(JArr(<<JNum(404), JStr("Not found")>>), r, Absent, Absent) :
            r \in {Absent, JArr(<<JStr("e")>>), JArr(<<JStr("e"), JStr("f")>>)}}
    \cup {MkObj(JArr(<<JNum(200), JStr("OK")>>), p, Absent, Absent) : p \in GoodPayloads(op)}

Bodies(op) ==
  {JInvalid, JNull, JNum(1), JStr("Bad Gateway"),
   JArr(<<JStr("invalid_token"), JStr("The access token provided is invalid")>>)}
    \cup {MkObj(m, r, e, d) : m \in MetaVals, r \in ResponseVals(op), e \in ErrorVals, d \in DescVals}
    \cup SeqBodies(op)

\* one body of each outcome: not JSON, a structured error, an OAuth error, a success
FewBodies(op) ==
  {JInvalid,
   MkObj(JObj([status |-> JNum(404), message |-> JStr("Not found")]), Absent, Absent, Absent),
   MkObj(Absent, Absent, JStr("invalid_token"), JStr("The access token provided is invalid"))}
    \cup {MkObj(JObj([status |-> JNum(200)]), p, Absent, Absent) : p \in GoodPayloads(op)}

(***************************************************************************)
(* ClientBuilder and Client.  A token and a header value are sequences of  *)
(* bytes; a header map is a sequence of <<name, value>> pairs.             *)
(***************************************************************************)
\* "Bearer "
Bearer == <<66, 101, 97, 114, 101, 114, 32>>
\* the tokens a caller hands to the builder: "", "A", "B\t", "A\n", DEL
Tokens == {<<>>, <<65>>, <<66, 9>>, <<65, 10>>, <<127>>}

AUTHORIZATION == "authorization"

\* HeaderValue::from_str takes a tab and every byte that is not a control character
IsValidHeaderValue(s) == \A i \in 1 .. Len(s) : s[i] = 9 \/ (s[i] >= 32 /\ s[i] # 127)

\* format!("Bearer {}", auth_token) as a sensitive header value
HeaderVal(auth_token) == [value |-> Bearer \o auth_token, sensitive |-> TRUE]

NoClient == [k |-> "none"]
\* Client { internal: ReqwestClient with these default headers }
ClientOf(headers) == [k |-> "client", internal |-> [default_headers |-> headers]]

\* no builder has been made
NoBuilder == [pc |-> "none", auth_token |-> None, headers |-> <<>>, result |-> NoResult]

\* ClientBuilder::new()
NewBuilder == [NoBuilder EXCEPT !.pc = "new"]

\* builder.auth_token(t)
WithAuthToken(b, t) == [b EXCEPT !.auth_token = Some(t)]

\* a build that takes a missing token for the empty token
BuildHeadersEmptyToken(b) ==
  LET t == IF b.auth_token.k = "none" THEN <<>> ELSE b.auth_token.v
  IN IF IsValidHeaderValue(Bearer \o t)
       THEN [b EXCEPT !.pc = "transport", !.headers = <<<<AUTHORIZATION, HeaderVal(t)>>>>]
       ELSE [b EXCEPT !.pc = "done", !.result = Err("AuthHeaderValue")]

\* build(), up to the header map: the token is taken out, the header value
\* is encoded (?), marked sensitive and inserted
BuildHeaders(b) ==
  IF b.auth_token.k = "none"
    THEN [b EXCEPT !.pc = "done", !.result = Err("MissingAuthToken")]
    ELSE IF IsValidHeaderValue(Bearer \o b.auth_token.v)
           THEN [b EXCEPT !.pc = "transport",
                          !.headers = <<<<AUTHORIZATION, HeaderVal(b.auth_token.v)>>>>]
           ELSE [b EXCEPT !.pc = "done", !.result = Err("AuthHeaderValue")]

\* a transport construction whose failure is reported as a header failure
BuildTransportAsHeaderError(b, ok, h) ==
  IF ok THEN [b EXCEPT !.pc = "done", !.headers = <<>>, !.result = Ok(h)]
        ELSE [b EXCEPT !.pc = "done", !.headers = <<>>, !.result = Err("AuthHeaderValue")]

\* build(), the rest: ReqwestClient::builder().default_headers(headers).build()?
\* makes the transport client that the Client held at handle h wraps, or fails
BuildTransport(b, ok, h) ==
  IF ok THEN [b EXCEPT !.pc = "done", !.headers = <<>>, !.result = Ok(h)]
        ELSE [b EXCEPT !.pc = "done", !.headers = <<>>, !.result = Err("ReqwestBuilder")]

\* the handles no Client lives at
Free == {h \in Handles : clients[h] = NoClient}
Live == Handles \ Free

(***************************************************************************)
(* A call: the endpoint method and the steps of Client::get.               *)
(***************************************************************************)
NoRequest == [k |-> "none"]
NoResponse == [k |-> "none"]
NoText == [k |-> "none"]
NoArgs == [k |-> "none"]

IdleCall ==
  [pc |-> "idle", client |-> 0, op |-> "none", args |-> NoArgs, endpoint |-> "", query |-> <<>>, nlog |-> 0, logLine |-> "",
   nsent |-> 0, request |-> NoRequest, response |-> NoResponse, text |-> NoText,
   result |-> NoResult]

\* self.get(endpoint, query): the call enters get on the Client at handle h
\* with its arguments
EnterGet(h, op, args, endpoint, query) ==
  [IdleCall EXCEPT !.pc = "get", !.client = h, !.op = op, !.args = args, !.endpoint = endpoint,
                   !.query = query]

\* a get that writes no log line
AfterLogSilent(call) ==
  [call EXCEPT !.pc = "send"]

\* a log line that also shows the default headers of the Client
AfterLogWithHeaders(call) ==
  [call EXCEPT !.pc = "send", !.nlog = @ + 1,
               !.logLine = LogLine(call.endpoint, call.query)
                             \o ToString(clients[call.client].internal.default_headers)]

\* info!(...)
AfterLog(call) ==
  [call EXCEPT !.pc = "send", !.nlog = @ + 1, !.logLine = LogLine(call.endpoint, call.query)]

\* a dispatch to the endpoint alone, the origin left out
AfterDispatchNoOrigin(call) ==
  [call EXCEPT !.pc = "await", !.nsent = @ + 1,
               !.request = [method |-> "GET", url |-> call.endpoint,
                            query |-> call.query,
                            headers |-> clients[call.client].internal.default_headers]]

\* a dispatch that leaves the default headers of the transport client out
AfterDispatchNoHeaders(call) ==
  [call EXCEPT !.pc = "await", !.nsent = @ + 1,
               !.request = [method |-> "GET", url |-> BASE_URL \o call.endpoint,
                            query |-> call.query, headers |-> <<>>]]

\* self.internal.get(BASE_URL + endpoint).query(query).send(): the transport
\* client puts its default headers on the request
AfterDispatch(call) ==
  [call EXCEPT !.pc = "await", !.nsent = @ + 1,
               !.request = [method |-> "GET", url |-> BASE_URL \o call.endpoint,
                            query |-> call.query,
                            headers |-> clients[call.client].internal.default_headers]]

\* the request has been handed over: the arguments of get are no longer used
Handed(call) ==
  [call EXCEPT !.client = 0, !.args = NoArgs, !.endpoint = "", !.query = <<>>,
               !.logLine = "", !.request = NoRequest]

\* a transport failure that is retried once
AfterTransportErrorRetry(call) ==
  IF call.nsent < 2
    THEN [call EXCEPT !.pc = "send", !.response = NoResponse]
    ELSE [Handed(call) EXCEPT !.pc = "done", !.result = Err("HttpError")]

\* a transport failure that goes on to decode an empty body
AfterTransportErrorDecodes(call) ==
  [Handed(call) EXCEPT !.pc = "decode", !.text = JInvalid]

\* .send().await? and .bytes().await? on a transport failure
AfterTransportError(call) ==
  [Handed(call) EXCEPT !.pc = "done", !.result = Err("HttpError")]

\* a send that turns a non-2xx status into an error (error_for_status)
AfterSendErrorForStatus(call, status, body) ==
  IF status \in 200 .. 299
    THEN [Handed(call) EXCEPT !.pc = "bytes", !.response = [status |-> status, body |-> body]]
    ELSE [Handed(call) EXCEPT !.pc = "done", !.result = Err("HttpError")]

\* .send().await? when the response arrives
AfterSend(call, status, body) ==
  [Handed(call) EXCEPT !.pc = "bytes", !.response = [status |-> status, body |-> body]]

\* a body read into one buffer that all the calls in flight share
AfterBytesShared(call) ==
  [call EXCEPT !.pc = "decode",
               !.text = calls[CHOOSE c \in DOMAIN calls :
                                /\ calls[c].pc = "bytes"
                                /\ \A d \in DOMAIN calls : calls[d].pc = "bytes" => c <= d
                             ].response.body]

\* a body that, once read, is held back until a signal that nothing sends
AfterBytesWaits(call) ==
  [call EXCEPT !.pc = "wait", !.text = call.response.body]

\* .bytes().await? when the whole body has been read
AfterBytes(call) ==
  [call EXCEPT !.pc = "decode", !.text = call.response.body]

\* a decode that fails once a call that failed in the decode is around
AfterDecodePoisoned(call) ==
  [call EXCEPT !.pc = "done",
               !.result = IF \E d \in DOMAIN calls : calls[d].result = Err("JsonError")
                            THEN Err("JsonError")
                            ELSE FromSlice(PayloadType(call.op), call.text)]

\* Ok(from_slice(&text)?)
AfterDecode(call) ==
  [call EXCEPT !.pc = "done", !.result = FromSlice(PayloadType(call.op), call.text)]

TypeOK ==
  \A c \in CallIds :
    /\ calls[c].pc \in {"idle", "get", "send", "await", "bytes", "decode", "done"}
    /\ calls[c].nsent \in 0 .. 1
    /\ calls[c].nlog \in 0 .. 1

\* the least handle of a set
First(S) == CHOOSE h \in S : \A g \in S : h <= g

\* nothing is being converted
NoCodec == [pc |-> "none", catchall |-> TRUE]

\* one caller holds a Client built from the token "A"
Init ==
  /\ calls = [c \in CallIds |-> IdleCall]
  /\ builder = BuildTransport(BuildHeaders(WithAuthToken(NewBuilder, <<65>>)), TRUE, First(Handles))
  /\ clients = [h \in Handles |->
                  IF h = First(Handles) THEN ClientOf(<<<<AUTHORIZATION, HeaderVal(<<65>>)>>>>)
                                        ELSE NoClient]
  /\ codec = NoCodec

\* ClientBuilder::new()
New ==
  /\ builder.pc \in {"none", "done"}
  /\ Live = {}
  /\ builder' = NewBuilder
  /\ UNCHANGED <<calls, clients, codec>>

\* builder.auth_token(t)
AuthToken ==
  /\ builder.pc = "new"
  /\ \E t \in Tokens : builder' = WithAuthToken(builder, t)
  /\ UNCHANGED <<calls, clients, codec>>

\* builder.build(), first part
Build ==
  /\ builder.pc = "new"
  /\ builder' = BuildHeaders(builder)
  /\ UNCHANGED <<calls, clients, codec>>

\* builder.build(), second part: the transport client is constructed or the
\* construction fails; on success the Client is returned
Construct ==
  /\ builder.pc = "transport"
  /\ \E ok \in BOOLEAN :
       /\ builder' = BuildTransport(builder, ok, First(Free))
       /\ clients' = IF ok THEN [clients EXCEPT ![First(Free)] = ClientOf(builder.headers)]
                          ELSE clients
  /\ UNCHANGED <<calls, codec>>

\* derive(Clone): the clone wraps the same transport client
CloneClient(client) == client

\* client.clone()
Clone ==
  /\ \E h \in Live :
       /\ Free # {}
       /\ clients' = [clients EXCEPT ![First(Free)] = CloneClient(clients[h])]
  /\ UNCHANGED <<calls, builder, codec>>

\* the transport delivers one of a few responses
SendRespondsFew(c) ==
  /\ calls[c].pc = "await"
  /\ UNCHANGED <<builder, clients, codec>>
  /\ \E status \in StatusCodes, body \in FewBodies(calls[c].op) :
       calls' = [calls EXCEPT ![c] = AfterSend(calls[c], status, body)]


Account(c) ==
  /\ calls[c].pc = "idle"
  /\ UNCHANGED <<builder, clients, codec>>
  /\ \E h \in Live :
       calls' = [calls EXCEPT ![c] = EnterGet(h, "account", NoArgs, "/account", <<TextFormat>>)]

Annotation(c) ==
  /\ calls[c].pc = "idle"
  /\ UNCHANGED <<builder, clients, codec>>
  /\ \E h \in Live, id \in Ids :
       calls' = [calls EXCEPT ![c] =
                   EnterGet(h, "annotation", [id |-> id], "/annotations/" \o Decimal(id), <<TextFormat>>)]

Artist(c) ==
  /\ calls[c].pc = "idle"
  /\ UNCHANGED <<builder, clients, codec>>
  /\ \E h \in Live, id \in Ids :
       calls' = [calls EXCEPT ![c] =
                   EnterGet(h, "artist", [id |-> id], "/artists/" \o Decimal(id), <<TextFormat>>)]

Referents(c) ==
  /\ calls[c].pc = "idle"
  /\ UNCHANGED <<builder, clients, codec>>
  /\ \E h \in Live, created_by \in Opt(Ids), associated \in Opt(Associations),
        per_page \in Opt(Pages), page \in Opt(Pages) :
       calls' = [calls EXCEPT ![c] =
                   EnterGet(h, "referents",
                            [created_by |-> created_by, associated |-> associated,
                             per_page |-> per_page, page |-> page],
                            "/referents",
                            ReferentsQueries(created_by, associated, per_page, page))]

Search(c) ==
  /\ calls[c].pc = "idle"
  /\ UNCHANGED <<builder, clients, codec>>
  /\ \E h \in Live, query \in Terms :
       calls' = [calls EXCEPT ![c] = EnterGet(h, "search", [query |-> query], "/search", <<<<"q", query>>>>)]

Song(c) ==
  /\ calls[c].pc = "idle"
  /\ UNCHANGED <<builder, clients, codec>>
  /\ \E h \in Live, id \in Ids :
       calls' = [calls EXCEPT ![c] =
                   EnterGet(h, "song", [id |-> id], "/songs/" \o Decimal(id), <<TextFormat>>)]

User(c) ==
  /\ calls[c].pc = "idle"
  /\ UNCHANGED <<builder, clients, codec>>
  /\ \E h \in Live, id \in Ids :
       calls' = [calls EXCEPT ![c] =
                   EnterGet(h, "user", [id |-> id], "/users/" \o Decimal(id), <<TextFormat>>)]

WebPages(c) ==
  /\ calls[c].pc = "idle"
  /\ UNCHANGED <<builder, clients, codec>>
  /\ \E h \in Live, raw_annotatable_url \in Opt(Urls), canonical_url \in Opt(Urls), og_url \in Opt(Urls) :
       calls' = [calls EXCEPT ![c] =
                   EnterGet(h, "web_pages",
                            [raw_annotatable_url |-> raw_annotatable_url,
                             canonical_url |-> canonical_url, og_url |-> og_url],
                            "/web_pages/lookup",
                            WebPagesQueries(raw_annotatable_url, canonical_url, og_url))]

Log(c) ==
  /\ calls[c].pc = "get"
  /\ UNCHANGED <<builder, clients, codec>>
  /\ calls' = [calls EXCEPT ![c] = AfterLog(calls[c])]

Dispatch(c) ==
  /\ calls[c].pc = "send"
  /\ UNCHANGED <<builder, clients, codec>>
  /\ calls' = [calls EXCEPT ![c] = AfterDispatch(calls[c])]

\* the transport fails before a response arrives
SendFails(c) ==
  /\ calls[c].pc = "await"
  /\ UNCHANGED <<builder, clients, codec>>
  /\ calls' = [calls EXCEPT ![c] = AfterTransportError(calls[c])]

\* the transport delivers a response: any status code, any body
SendResponds(c) ==
  /\ calls[c].pc = "await"
  /\ UNCHANGED <<builder, clients, codec>>
  /\ \E status \in StatusCodes, body \in Bodies(calls[c].op) :
       calls' = [calls EXCEPT ![c] = AfterSend(calls[c], status, body)]

\* the transport fails while the body is read
BytesFails(c) ==
  /\ calls[c].pc = "bytes"
  /\ UNCHANGED <<builder, clients, codec>>
  /\ calls' = [calls EXCEPT ![c] = AfterTransportError(calls[c])]

BytesBuffered(c) ==
  /\ calls[c].pc = "bytes"
  /\ UNCHANGED <<builder, clients, codec>>
  /\ calls' = [calls EXCEPT ![c] = AfterBytes(calls[c])]

Decode(c) ==
  /\ calls[c].pc = "decode"
  /\ UNCHANGED <<builder, clients, codec>>
  /\ calls' = [calls EXCEPT ![c] = AfterDecode(calls[c])]

\* the caller takes the Result; the future is dropped
Return(c) ==
  /\ calls[c].pc = "done"
  /\ UNCHANGED <<builder, clients, codec>>
  /\ calls' = [calls EXCEPT ![c] = IdleCall]

Next ==
  \E c \in CallIds :
    \/ Account(c)
    \/ Annotation(c)
    \/ Artist(c)
    \/ Referents(c)
    \/ Search(c)
    \/ Song(c)
    \/ User(c)
    \/ WebPages(c)
    \/ Log(c)
    \/ Dispatch(c)
    \/ SendFails(c)
    \/ SendResponds(c)
    \/ BytesFails(c)
    \/ BytesBuffered(c)
    \/ Decode(c)
    \/ Return(c)

Spec == Init /\ [][Next]_vars

\* one body of each outcome, the success of a search being one that found
\* nothing: which hits a body holds changes nothing in the steps of a call
LiveBodies(op) ==
  {JInvalid,
   MkObj(JObj([status |-> JNum(404), message |-> JStr("Not found")]), Absent, Absent, Absent),
   MkObj(Absent, Absent, JStr("invalid_token"), JStr("The access token provided is invalid"))}
    \cup {MkObj(JObj([status |-> JNum(200)]), p, Absent, Absent) :
            p \in IF op = "search" THEN {JObj([hits |-> JArr(<<>>)])} ELSE GoodPayloads(op)}

\* the transport delivers one of these responses
SendRespondsLive(c) ==
  /\ calls[c].pc = "await"
  /\ UNCHANGED <<builder, clients, codec>>
  /\ \E status \in StatusCodes, body \in LiveBodies(calls[c].op) :
       calls' = [calls EXCEPT ![c] = AfterSend(calls[c], status, body)]

\* one caller and every operation, against the transport of a few responses
NextLive ==
  \E c \in CallIds :
    \/ Account(c)
    \/ Annotation(c)
    \/ Artist(c)
    \/ Referents(c)
    \/ Search(c)
    \/ Song(c)
    \/ User(c)
    \/ WebPages(c)
    \/ Log(c)
    \/ Dispatch(c)
    \/ SendFails(c)
    \/ SendRespondsLive(c)
    \/ BytesFails(c)
    \/ BytesBuffered(c)
    \/ Decode(c)
    \/ Return(c)

\* The caller awaits the call, so the executor polls the future whenever it
\* can go on (Log, Dispatch, Decode); the transport, as supposed, ends each
\* of its two waits with a response or a failure, and a body or a failure.
LiveSpec ==
  /\ Init
  /\ [][NextLive]_vars
  /\ \A c \in CallIds :
       /\ WF_vars(Log(c))
       /\ WF_vars(Dispatch(c))
       /\ WF_vars(SendFails(c) \/ SendRespondsLive(c))
       /\ WF_vars(BytesFails(c) \/ BytesBuffered(c))
       /\ WF_vars(Decode(c))

\* the caller tasks that share the Client and its clone
Tasks == {1, 2}

\* nothing has been built; two tasks are idle
InitBuilder ==
  /\ calls = [c \in Tasks |-> IdleCall]
  /\ builder = NoBuilder
  /\ clients = [h \in Handles |-> NoClient]
  /\ codec = NoCodec

NextClient ==
  \/ New
  \/ AuthToken
  \/ Build
  \/ Construct
  \/ Clone
  \/ \E c \in Tasks :
       \/ Account(c)
       \/ Song(c)
       \/ Log(c)
       \/ Dispatch(c)
       \/ SendFails(c)
       \/ SendRespondsFew(c)
       \/ BytesFails(c)
       \/ BytesBuffered(c)
       \/ Decode(c)
       \/ Return(c)

\* the builder, the Client, its clone and two concurrent callers
ClientSpec == InitBuilder /\ [][NextClient]_vars

(***************************************************************************)
(* The data model on its own: a JSON document is decoded into a value of   *)
(* the model, the value is serialized again (serde_json::to_value), and    *)
(* the output is decoded once more.  root names what is decoded: a struct  *)
(* of the model, or Response<T> as Client::get decodes it.                 *)
(***************************************************************************)
\* a success envelope around a payload
SuccessBody(p) == JObj([meta |-> JObj([status |-> JNum(200)]), response |-> p])

\* a structured error and an error outside the documented format
ErrorBody == JObj([meta |-> JObj([status |-> JNum(404), message |-> JStr("Not found")]),
                   response |-> JObj([error |-> JStr("e")])])
OtherBody == JObj([error |-> JStr("invalid_token"),
                   error_description |-> JStr("The access token provided is invalid")])

\* the bodies Response<T> is decoded from
ResponseInputs(T) ==
  {JInvalid, SuccessBody(Sample(T)), ErrorBody, OtherBody}
    \cup Edits(SuccessBody(Sample(T))) \cup Inside(SuccessBody(Sample(T)))
    \cup {SuccessBody(p) : p \in Inside(Sample(T))}
    \cup Edits(ErrorBody) \cup Inside(ErrorBody) \cup Edits(OtherBody)

PayloadTypes == {PayloadType(op) : op \in Ops}

StructRoot(ty) == [envelope |-> FALSE, ty |-> ty]
ResponseRoot(T) == [envelope |-> TRUE, ty |-> T]
Roots == {StructRoot(ty) : ty \in StructTypes} \cup {ResponseRoot(T) : T \in PayloadTypes}

RootInputs(root) == IF root.envelope THEN ResponseInputs(root.ty) ELSE Inputs(root.ty)

\* T::deserialize on a JSON value
FromValue(ty, json) ==
  IF Matches(ty, json) THEN Ok(Decoded(ty, json)) ELSE Err("JsonError")

\* Response::<T>::serialize: the fields of the variant, no tag
ResponseToValue(T, r) ==
  CASE r.variant = "Success" ->
         JObj([meta |-> Encoded("SuccessMeta", r.meta), response |-> Encoded(T, r.response)])
    [] r.variant = "Error" ->
         IF r.response = None
           THEN JObj([meta |-> Encoded("ErrorMeta", r.meta)])
           ELSE JObj([meta |-> Encoded("ErrorMeta", r.meta),
                      response |-> Encoded("Option<ErrorResponse>", r.response)])
    [] r.variant = "Other" ->
         JObj([error |-> JStr(r.error), error_description |-> JStr(r.error_description)])

DecodeRoot(root, json) ==
  IF root.envelope THEN FromSlice(root.ty, json) ELSE FromValue(root.ty, json)

\* every field of a Response variant written, the absent payload as null
EncodeRootKeepNone(root, value) ==
  IF root.envelope /\ value.variant = "Error" /\ value.response = None
    THEN JObj([meta |-> Encoded("ErrorMeta", value.meta), response |-> JNull])
    ELSE IF root.envelope THEN ResponseToValue(root.ty, value) ELSE Encoded(root.ty, value)

EncodeRoot(root, value) ==
  IF root.envelope THEN ResponseToValue(root.ty, value) ELSE Encoded(root.ty, value)

\* a document waits to be decoded
CodecOf(catchall, root, json) ==
  [pc |-> "input", catchall |-> catchall, root |-> root, json |-> json,
   value |-> NoResult, out |-> JInvalid, again |-> NoResult]

InitCodec ==
  /\ calls = [c \in CallIds |-> IdleCall]
  /\ builder = NoBuilder
  /\ clients = [h \in Handles |-> NoClient]
  /\ \E catchall \in BOOLEAN, root \in Roots :
       \E json \in RootInputs(root) : codec = CodecOf(catchall, root, json)

\* the document is decoded
Deserialize ==
  /\ codec.pc = "input"
  /\ UNCHANGED <<calls, builder, clients>>
  /\ codec' = [codec EXCEPT !.pc = "decoded", !.value = DecodeRoot(codec.root, codec.json)]

\* the decoded value is serialized
Serialize ==
  /\ codec.pc = "decoded"
  /\ codec.value.kind = "Ok"
  /\ UNCHANGED <<calls, builder, clients>>
  /\ codec' = [codec EXCEPT !.pc = "encoded", !.out = EncodeRoot(codec.root, codec.value.value)]

\* the output is decoded
DeserializeOutput ==
  /\ codec.pc = "encoded"
  /\ UNCHANGED <<calls, builder, clients>>
  /\ codec' = [codec EXCEPT !.pc = "again", !.again = DecodeRoot(codec.root, codec.out)]

NextCodec ==
  \/ Deserialize
  \/ Serialize
  \/ DeserializeOutput

\* decode, encode and decode again of the data model
CodecSpec == InitCodec /\ [][NextCodec]_vars

(***************************************************************************)
(* Properties.                                                             *)
(***************************************************************************)
\* call c has finished and its result came from decoding a buffered body
HasDecoded(c) == calls[c].pc = "done" /\ calls[c].text # NoText

IsJson(c) == calls[c].text.k # "invalid"

PayloadOf(c) == PayloadType(calls[c].op)

IsVariant(c, name) ==
  calls[c].result.kind = "Ok" /\ calls[c].result.value.variant = name

\* the variants whose matcher accepts the body of call c
Accepting(c) ==
  {n \in {"Success", "Error", "Other"} :
     \/ n = "Success" /\ MatchesSuccess(PayloadOf(c), calls[c].text)
     \/ n = "Error" /\ MatchesError(calls[c].text)
     \/ n = "Other" /\ MatchesOther(calls[c].text)}

\* C1: the decoded variant is the first of Success, Error, Other whose shape the
\* body satisfies; a body satisfying several shapes yields the earliest, and
\* Other is produced only when Success and Error both failed to match.
C1_FirstMatchWins ==
  \A c \in CallIds :
    HasDecoded(c) /\ IsJson(c) =>
      /\ "Success" \in Accepting(c) => IsVariant(c, "Success")
      /\ "Error" \in Accepting(c) /\ "Success" \notin Accepting(c) => IsVariant(c, "Error")
      /\ Accepting(c) = {"Other"} => IsVariant(c, "Other")
      /\ IsVariant(c, "Other") => "Success" \notin Accepting(c) /\ "Error" \notin Accepting(c)
      /\ calls[c].result.kind = "Ok" => calls[c].result.value.variant \in Accepting(c)

\* a body that satisfies the Error and the Other shape has been decoded as Error
C1_Witness ==
  \E c \in CallIds :
    HasDecoded(c) /\ IsJson(c) /\ Accepting(c) = {"Error", "Other"} /\ IsVariant(c, "Error")

\* C2 as stated: at most one of the three matchers accepts a body.
C2_Original_OneMatcher ==
  \A c \in CallIds : HasDecoded(c) /\ IsJson(c) => Cardinality(Accepting(c)) <= 1

\* the body of call c has exactly the keys of one shape, at every level
KeysOf(v) == IF v.k = "obj" THEN DOMAIN v.v ELSE {}

ExactSuccess(c) ==
  LET b == calls[c].text IN
    /\ KeysOf(b) = {"meta", "response"}
    /\ KeysOf(b.v.meta) = {"status"}
    /\ Matches("u16", b.v.meta.v.status)
    /\ KeysOf(b.v.response) = FieldNames(Fields(PayloadOf(c)))
    /\ Matches(PayloadOf(c), b.v.response)

ExactError(c) ==
  LET b == calls[c].text IN
    /\ KeysOf(b) \in {{"meta"}, {"meta", "response"}}
    /\ KeysOf(b.v.meta) = {"status", "message"}
    /\ Matches("u16", b.v.meta.v.status)
    /\ Matches("String", b.v.meta.v.message)
    /\ "response" \in KeysOf(b) =>
         KeysOf(b.v.response) = {"error"} /\ Matches("String", b.v.response.v.error)

ExactOther(c) ==
  LET b == calls[c].text IN
    /\ KeysOf(b) = {"error", "error_description"}
    /\ Matches("String", b.v.error)
    /\ Matches("String", b.v.error_description)

\* C2 (amended): a body that has exactly the keys of shape N -- no further key
\* at the top level, in meta or in response -- is accepted by the matcher of
\* variant N alone and decodes to variant N.
C2_ExactShapeOneMatcher ==
  \A c \in CallIds :
    HasDecoded(c) /\ IsJson(c) =>
      /\ ExactSuccess(c) => Accepting(c) = {"Success"} /\ IsVariant(c, "Success")
      /\ ExactError(c) => Accepting(c) = {"Error"} /\ IsVariant(c, "Error")
      /\ ExactOther(c) => Accepting(c) = {"Other"} /\ IsVariant(c, "Other")

\* a body with exactly the keys of the Error shape has been decoded
C2_Witness ==
  \E c \in CallIds :
    HasDecoded(c) /\ IsJson(c) /\ ExactError(c) /\ "response" \in KeysOf(calls[c].text)
      /\ IsVariant(c, "Error")

\* the shapes as C3 words them; further keys do not take a shape away
StructuredErrorShape(c) ==
  LET b == calls[c].text IN
    /\ "meta" \in KeysOf(b)
    /\ {"status", "message"} \subseteq KeysOf(b.v.meta)
    /\ Matches("u16", b.v.meta.v.status)
    /\ Matches("String", b.v.meta.v.message)
    /\ "response" \in KeysOf(b) =>
         "error" \in KeysOf(b.v.response) /\ Matches("String", b.v.response.v.error)

OtherShape(c) ==
  LET b == calls[c].text IN
    /\ {"error", "error_description"} \subseteq KeysOf(b)
    /\ Matches("String", b.v.error)
    /\ Matches("String", b.v.error_description)

\* the call returned Ok(Response::Error) with the status and message of the body
ReturnsErrorOfBody(c) ==
  /\ IsVariant(c, "Error")
  /\ calls[c].result.value.meta.status = calls[c].text.v.meta.v.status.v
  /\ calls[c].result.value.meta.message = calls[c].text.v.meta.v.message.v

\* C3 as stated: a structured-error body that is not success-shaped gives
\* Ok(Response::Error) with the body's status and message, and every body of the
\* shape {error, error_description} gives Ok(Response::Other).
C3_Original_ErrorsAreOk ==
  \A c \in CallIds :
    HasDecoded(c) /\ IsJson(c) =>
      /\ StructuredErrorShape(c) /\ "Success" \notin Accepting(c) => ReturnsErrorOfBody(c)
      /\ OtherShape(c) => IsVariant(c, "Other")

\* C3 (amended): a structured-error body that is not success-shaped gives
\* Ok(Response::Error) with the body's status and message; a body of the shape
\* {error, error_description} that satisfies neither the success nor the
\* structured-error shape gives Ok(Response::Other); neither is ever an Err.
C3_ErrorsAreOk ==
  \A c \in CallIds :
    HasDecoded(c) /\ IsJson(c) =>
      /\ StructuredErrorShape(c) /\ "Success" \notin Accepting(c) => ReturnsErrorOfBody(c)
      /\ OtherShape(c) /\ "Success" \notin Accepting(c) /\ "Error" \notin Accepting(c)
           => IsVariant(c, "Other")
      /\ OtherShape(c) => calls[c].result.kind = "Ok"

\* a 404 body {meta: {status, message}} came back as Ok(Response::Error)
C3_Witness ==
  \E c \in CallIds :
    /\ HasDecoded(c) /\ IsJson(c)
    /\ StructuredErrorShape(c) /\ "response" \notin KeysOf(calls[c].text)
    /\ ReturnsErrorOfBody(c) /\ calls[c].result.value.meta.status = 404

SendFailed(c) ==
  calls[c].pc = "await" /\ calls'[c].pc # "await" /\ calls'[c].response = NoResponse
BytesFailed(c) ==
  calls[c].pc = "bytes" /\ calls'[c].pc # "bytes" /\ calls'[c].text = NoText

\* C5: a transport failure, while sending or while buffering the body, ends the
\* call at once with Err(HttpError); nothing is decoded, the result is no
\* envelope and is never JsonError.
C5_TransportErrorAborts ==
  [][\A c \in CallIds :
       SendFailed(c) \/ BytesFailed(c) =>
         /\ calls'[c].pc = "done"
         /\ calls'[c].text = NoText
         /\ calls'[c].result = Err("HttpError")]_vars

\* a call whose response arrived and whose body could not be read has ended
C5_Witness ==
  \E c \in CallIds :
    /\ calls[c].pc = "done" /\ calls[c].response # NoResponse /\ calls[c].text = NoText
    /\ calls[c].result = Err("HttpError")

\* C6: a call dispatches exactly one GET whatever its outcome: none before the
\* dispatch step, one from then on, also after a transport or a decode error.
C6_OneRequestPerCall ==
  \A c \in CallIds :
    /\ calls[c].pc \in {"idle", "get", "send"} => calls[c].nsent = 0
    /\ calls[c].pc \in {"await", "bytes", "decode", "done"} => calls[c].nsent = 1

\* a call that ended with an error has sent one request
C6_Witness ==
  \E c \in CallIds :
    calls[c].pc = "done" /\ calls[c].result.kind = "Err" /\ calls[c].nsent = 1

\* the result of a call from the point it is in, the transport not failing
RECURSIVE RunToEnd(_)
RunToEnd(call) ==
  IF call.pc = "bytes" THEN RunToEnd(AfterBytes(call))
  ELSE IF call.pc = "decode" THEN RunToEnd(AfterDecode(call))
  ELSE call.result

\* the same call with another status code on the response
WithStatus(call, status) ==
  [call EXCEPT !.pc = "bytes", !.response.status = status, !.text = NoText,
               !.result = NoResult]

\* C7: the result depends on the body only, not on the HTTP status code: the
\* same body under any two status codes gives the same Ok/Err and variant.
C7_StatusNotConsulted ==
  \A c \in CallIds :
    /\ calls[c].pc = "await" =>
         \A body \in Bodies(calls[c].op) : \A s1, s2 \in StatusCodes :
           RunToEnd(AfterSend(calls[c], s1, body)) = RunToEnd(AfterSend(calls[c], s2, body))
    /\ HasDecoded(c) =>
         \A s \in StatusCodes : RunToEnd(WithStatus(calls[c], s)) = calls[c].result

\* a success body under status 404 came back as Ok(Response::Success), and an
\* error body under status 200 as Ok(Response::Error)
C7_Witness ==
  \E c \in CallIds :
    HasDecoded(c) /\ calls[c].response.status = 404 /\ IsVariant(c, "Success")

\* call c has built its query and the response has not arrived yet
Building(c) == calls[c].pc \in {"get", "send", "await"}

\* the query of call c: the one handed to get, or the one of the request sent
Emitted(c) == IF calls[c].pc = "await" THEN calls[c].request.query ELSE calls[c].query

IsSet(opt) == opt.k = "some"

\* C8: account, annotation, artist, referents, song and user carry exactly one
\* pair text_format=html,plain for every argument value; search and web_pages
\* never carry a text_format key.
C8_TextFormat ==
  \A c \in CallIds :
    Building(c) =>
      IF calls[c].op \in {"account", "annotation", "artist", "referents", "song", "user"}
        THEN /\ Count(Emitted(c), "text_format") = 1
             /\ Values(Emitted(c), "text_format") = {"html,plain"}
        ELSE "text_format" \notin Keys(Emitted(c))

\* a referents request with every optional argument set has been dispatched
C8_Witness ==
  \E c \in CallIds :
    /\ calls[c].pc = "await" /\ calls[c].op = "referents"
    /\ Len(calls[c].request.query) = 5
    /\ calls[c].request.query[1] = <<"text_format", "html,plain">>

\* key is in the query of call c exactly when its argument is set, and an unset
\* argument leaves no pair with an empty value
KeyIffSet(c, key, opt) ==
  /\ key \in Keys(Emitted(c)) <=> IsSet(opt)
  /\ ~IsSet(opt) => \A i \in 1 .. Len(Emitted(c)) : Emitted(c)[i] # <<key, "">>

\* C9: in referents and web_pages an optional key is in the query if and only
\* if its argument is set; an unset argument never gives the key with an empty
\* value; web_pages with the three URLs unset emits none of the three keys.
C9_OptionalKeys ==
  \A c \in CallIds :
    Building(c) =>
      /\ calls[c].op = "referents" =>
           /\ KeyIffSet(c, "created_by_id", calls[c].args.created_by)
           /\ KeyIffSet(c, "per_page", calls[c].args.per_page)
           /\ KeyIffSet(c, "page", calls[c].args.page)
      /\ calls[c].op = "web_pages" =>
           /\ KeyIffSet(c, "raw_annotatable_url", calls[c].args.raw_annotatable_url)
           /\ KeyIffSet(c, "canonical_url", calls[c].args.canonical_url)
           /\ KeyIffSet(c, "og_url", calls[c].args.og_url)
           /\ (/\ ~IsSet(calls[c].args.raw_annotatable_url)
               /\ ~IsSet(calls[c].args.canonical_url)
               /\ ~IsSet(calls[c].args.og_url))
                => Keys(Emitted(c)) \cap {"raw_annotatable_url", "canonical_url", "og_url"} = {}

\* web_pages with no URL set has dispatched a request with an empty query
C9_Witness ==
  \E c \in CallIds :
    /\ calls[c].pc = "await" /\ calls[c].op = "web_pages"
    /\ ~IsSet(calls[c].args.raw_annotatable_url)
    /\ ~IsSet(calls[c].args.canonical_url)
    /\ ~IsSet(calls[c].args.og_url)
    /\ calls[c].request.query = <<>>

\* C10: a referents query never holds both song_id and web_page_id: SongId(n)
\* gives exactly song_id=n and no web_page_id, WebPageId(n) exactly
\* web_page_id=n and no song_id, and an unset association gives neither.
C10_OneAssociationKey ==
  \A c \in CallIds :
    Building(c) /\ calls[c].op = "referents" =>
      LET q == Emitted(c)
          a == calls[c].args.associated
      IN  /\ ~({"song_id", "web_page_id"} \subseteq Keys(q))
          /\ IsSet(a) /\ a.v.tag = "SongId" =>
               /\ Count(q, "song_id") = 1
               /\ Values(q, "song_id") = {ToString(a.v.id)}
               /\ "web_page_id" \notin Keys(q)
          /\ IsSet(a) /\ a.v.tag = "WebPageId" =>
               /\ Count(q, "web_page_id") = 1
               /\ Values(q, "web_page_id") = {ToString(a.v.id)}
               /\ "song_id" \notin Keys(q)
          /\ ~IsSet(a) => "song_id" \notin Keys(q) /\ "web_page_id" \notin Keys(q)

\* a referents request for a web page has been dispatched with web_page_id alone
C10_Witness ==
  \E c \in CallIds :
    /\ calls[c].pc = "await" /\ calls[c].op = "referents"
    /\ calls[c].args.associated = Some(WebPageId(BigId))
    /\ Values(calls[c].request.query, "web_page_id") = {"999999999"}
    /\ "song_id" \notin Keys(calls[c].request.query)

(***************************************************************************)
(* Properties of the builder and of the Client, under ClientSpec.          *)
(***************************************************************************)
\* build() has returned
BuildDone == builder.pc = "done"

\* C11: build() on a builder whose token was never set returns
\* Err(MissingAuthToken) and produces no Client; the header step and the
\* transport construction are not reached, and no other failure of build() is
\* reported as MissingAuthToken.
C11_MissingAuthToken ==
  /\ BuildDone /\ builder.auth_token.k = "none" =>
        builder.result = Err("MissingAuthToken") /\ Live = {}
  /\ builder.result = Err("MissingAuthToken") => BuildDone /\ builder.auth_token.k = "none"
  /\ builder.pc = "transport" => builder.auth_token.k = "some"

C11_Witness == BuildDone /\ builder.auth_token.k = "none"

\* a byte string that holds a control character other than the tab
Unencodable(t) == \E i \in 1 .. Len(t) : t[i] \in ((0 .. 31) \ {9}) \cup {127}

\* the step of build() that encodes the header
EncodesHeader == builder.pc = "new" /\ builder'.pc # "new" /\ builder.auth_token.k = "some"
\* the step of build() that constructs the transport client
ConstructsTransport == builder.pc = "transport" /\ builder'.pc # "transport"

\* C12: a token that cannot be encoded as a header value makes build() return
\* Err(AuthHeaderValue); a failed transport construction makes it return
\* Err(ReqwestBuilder); neither produces a Client; the header is checked
\* before the transport client is constructed, so a header error never comes
\* out of the construction step.
C12_BuildErrors ==
  [][ /\ EncodesHeader =>
            IF Unencodable(builder.auth_token.v)
              THEN builder'.result = Err("AuthHeaderValue") /\ builder'.pc = "done"
                   /\ clients' = clients
              ELSE builder'.pc = "transport" /\ builder'.result = NoResult
      /\ ConstructsTransport =>
            \/ builder'.result = Err("ReqwestBuilder") /\ clients' = clients
            \/ builder'.result.kind = "Ok" /\ clients'[builder'.result.value] # NoClient
      /\ builder'.result.kind = "Err" => clients' = clients /\ Live = {}
    ]_vars

C12_Witness ==
  /\ BuildDone /\ builder.result = Err("AuthHeaderValue")
  /\ Unencodable(builder.auth_token.v)

\* the values a header map holds under a name
HeaderValues(headers, name) ==
  {headers[i][2].value : i \in {j \in 1 .. Len(headers) : headers[j][1] = name}}

\* the headers are the Authorization of the token the Client was built from
IsBearerOfToken(headers) ==
  /\ builder.auth_token.k = "some"
  /\ HeaderValues(headers, AUTHORIZATION) = {Bearer \o builder.auth_token.v}

\* C13: every request sent through a built Client or a clone of it carries
\* Authorization: "Bearer " followed by the token given to the builder, in
\* every reachable state; the header is set when the Client is built and no
\* operation changes the headers of a Client that exists.
C13_AuthorizationHeader ==
  /\ [](/\ \A h \in Live : IsBearerOfToken(clients[h].internal.default_headers)
        /\ \A c \in Tasks : calls[c].pc = "await" => IsBearerOfToken(calls[c].request.headers))
  /\ [][\A h \in Live : clients'[h] = clients[h]]_vars

\* a request is in flight on the clone while the other task has finished a call
C13_Witness ==
  /\ Live = Handles
  /\ \E c \in Tasks :
       /\ calls[c].pc = "await" /\ calls[c].client # First(Handles)
       /\ \E d \in Tasks \ {c} : calls[d].pc = "done"

\* the outcome of the same call made with no other call in flight, against a
\* transport that behaves as it did for this call: a failure of send or of
\* bytes is Err(HttpError), a delivered body is decoded
AloneOutcome(call) ==
  IF call.response = NoResponse \/ call.text = NoText
    THEN Err("HttpError")
    ELSE FromSlice(PayloadType(call.op), call.response.body)

\* some step of task c
StepOf(c) ==
  \/ Log(c) \/ Dispatch(c) \/ SendFails(c) \/ SendRespondsFew(c)
  \/ BytesFails(c) \/ BytesBuffered(c) \/ Decode(c) \/ Return(c)

\* C14: calls issued concurrently on one Client and on its clone do not
\* interfere: the outcome of each call is the outcome the same call has when
\* run alone against the same transport response; a step of one call changes
\* nothing another call holds; and a call is never blocked by another one (a
\* call in flight can always take its next step, an idle task can always
\* start a call on a Client that exists).
C14_CallsIndependent ==
  /\ [](\A c \in Tasks :
         /\ calls[c].pc = "done" => calls[c].result = AloneOutcome(calls[c])
         /\ calls[c].pc # "idle" => ENABLED StepOf(c)
         /\ calls[c].pc = "idle" /\ Live # {} => ENABLED Account(c) /\ ENABLED Song(c))
  /\ [][\A c \in Tasks :
         calls'[c] # calls[c] =>
           /\ \A d \in Tasks \ {c} : calls'[d] = calls[d]
           /\ clients' = clients]_vars

\* two calls overlap, one on the Client and one on the clone, with different
\* bodies: one has been decoded while the other is still being read
C14_Witness ==
  \E c \in Tasks : \E d \in Tasks \ {c} :
    /\ HasDecoded(c)
    /\ calls[d].pc = "bytes"
    /\ calls[d].response.body # calls[c].response.body
    /\ Live = Handles

\* C15: within one call the steps come in a fixed order: the log line, then
\* the dispatch of the request, then the buffering of the whole body, then the
\* decode.  A request has been sent only after the line was logged, a body is
\* buffered only from a response to that request, the decode starts and a
\* decoded result exists only with the whole body buffered, and a call that
\* failed (in the transport or in the decode) has logged its line too.
C15_StepOrder ==
  \A c \in CallIds :
    /\ calls[c].pc \in {"send", "await", "bytes", "decode", "done"} => calls[c].nlog = 1
    /\ calls[c].pc = "send" => calls[c].nsent = 0
    /\ calls[c].nsent = 1 <=> calls[c].pc \in {"await", "bytes", "decode", "done"}
    /\ calls[c].response # NoResponse => calls[c].nsent = 1
    /\ calls[c].pc \in {"bytes", "decode"} => calls[c].response # NoResponse
    /\ calls[c].text # NoText => calls[c].text = calls[c].response.body
    /\ calls[c].pc = "decode" => calls[c].text # NoText /\ calls[c].result = NoResult
    /\ calls[c].pc = "done" /\ calls[c].result # Err("HttpError") => calls[c].text # NoText
    /\ calls[c].pc # "done" => calls[c].result = NoResult

\* a call that logged its line and sent its request failed in the decode
C15_Witness ==
  \E c \in CallIds :
    /\ calls[c].pc = "done" /\ calls[c].result = Err("JsonError")
    /\ calls[c].nlog = 1 /\ calls[c].nsent = 1

(***************************************************************************)
(* The data model: enumerations, the extra bag, flattening, round trips.   *)
(***************************************************************************)
\* the first decode is over, of a document for the struct ty
DecodedAs(ty) == codec.pc = "decoded" /\ codec.root = StructRoot(ty)

\* the keys of a song relationship that hold a RelationshipType
RelationshipTypeKeys == {"type", "relationship_type"}

\* the object v with the string "unknown" under key
WithUnknown(v, key) == JObj((key :> JStr("unknown")) @@ v.v)

\* the document is a song relationship that is well formed but for the
\* relationship type under key, a string outside the known set
OutsideKnownSet(key) ==
  /\ DecodedAs("SongRelationship")
  /\ codec.json.k = "obj"
  /\ key \in DOMAIN codec.json.v
  /\ codec.json.v[key].k = "str"
  /\ \A i \in 1 .. Len(RelationshipTypeVariants) : RelationshipTypeVariants[i] # codec.json.v[key].v
  /\ Matches("SongRelationship", WithUnknown(codec.json, key))

\* C16: a song relationship whose relationship type is a value outside the
\* known set decodes, and to what it would decode to with "unknown" in the
\* place of that value: RelationshipType::Unknown rather than a failure
C16_UnknownFallback ==
  \A key \in RelationshipTypeKeys :
    OutsideKnownSet(key) =>
      /\ codec.value.kind = "Ok"
      /\ codec.value = Ok(Decoded("SongRelationship", WithUnknown(codec.json, key)))


\* the first decode is over, of a body for Response<T>
DecodedResponse(T) == codec.pc = "decoded" /\ codec.root = ResponseRoot(T)

\* the body is the success envelope around an annotation payload whose
\* annotation has a state outside the known set
StateOutsideKnownSet ==
  /\ codec.json.k = "obj"
  /\ DOMAIN codec.json.v = {"meta", "response"}
  /\ codec.json.v["meta"] = JObj([status |-> JNum(200)])
  /\ codec.json.v["response"].k = "obj"
  /\ "annotation" \in DOMAIN codec.json.v["response"].v
  /\ LET annotation == codec.json.v["response"].v["annotation"]
     IN  /\ annotation.k = "obj"
         /\ "state" \in DOMAIN annotation.v
         /\ annotation.v["state"].k = "str"
         /\ \A i \in 1 .. Len(AnnotationStateVariants) :
              AnnotationStateVariants[i] # annotation.v["state"].v

BagTypes == {ty \in StructTypes : \E i \in 1 .. Len(Declared(ty)) : Declared(ty)[i] = Extra}

\* the keys a struct knows: its own and those of the structs flattened into it
RECURSIVE KnownKeys(_)
KnownKeys(ty) ==
  Own(ty) \cup UNION {KnownKeys(Fields(ty)[i].ty) :
                        i \in {j \in 1 .. Len(Fields(ty)) : /\ Fields(ty)[j].flatten
                                                            /\ Fields(ty)[j].ty \in StructTypes}}

\* an object was decoded, encoded and decoded again, with the catchall feature
RoundTripped(ty) ==
  /\ codec.catchall
  /\ codec.root = StructRoot(ty)
  /\ codec.pc = "again"
  /\ codec.json.k = "obj"

\* C18: with the extra bag, an object that is decoded, encoded and decoded
\* again is accepted again, and the value holds every key of the original: a
\* key the struct knows is one of its fields (and is written out again unless
\* its value is null), any other key is in the bag with the value it had, and
\* the output has it too
C18_BagRoundTrip ==
  \A ty \in BagTypes :
    RoundTripped(ty) =>
      /\ codec.again.kind = "Ok"
      /\ "extra" \in DOMAIN codec.again.value
      /\ \A key \in DOMAIN codec.json.v :
           /\ key \in KnownKeys(ty) \/ key \in DOMAIN codec.again.value["extra"]
           /\ key \in DOMAIN codec.again.value["extra"] =>
                codec.again.value["extra"][key] = codec.json.v[key]
           /\ key \notin KnownKeys(ty) =>
                key \in DOMAIN codec.out.v /\ codec.out.v[key] = codec.json.v[key]
           /\ codec.json.v[key] # JNull => key \in DOMAIN codec.out.v

\* a song with a key the model does not know has gone round
C18_Witness ==
  /\ RoundTripped("Song")
  /\ codec.json = JObj((UnknownKey :> JNum(7)) @@ Sample("Song").v)
  /\ codec.again.kind = "Ok"
  /\ codec.again.value["extra"][UnknownKey] = JNum(7)


\* a bag of the struct, or of a struct flattened into it, collects the keys
\* that no field claims
RECURSIVE HasBag(_)
HasBag(ty) ==
  \E i \in 1 .. Len(Fields(ty)) :
    /\ Fields(ty)[i].flatten
    /\ Fields(ty)[i].ty \in StructTypes => HasBag(Fields(ty)[i].ty)

(***************************************************************************)
(* Written(ty, v, lax): the JSON value v is written the way the encoder    *)
(* writes a value of type ty.  An object holds each key of the type, but   *)
(* may lack one that is left out when None and then never holds null under *)
(* it; it holds no key the type does not know unless a bag collects it; a  *)
(* float is written with its fraction and, in single precision, is one a   *)
(* single holds; an enum is written as the name of its variant.  With lax, *)
(* any optional key may be missing.                                        *)
(***************************************************************************)
RECURSIVE Written(_, _, _)
RECURSIVE WrittenFields(_, _, _)

\* the entries m give each field of the struct, flattened ones included
WrittenFields(ty, m, lax) ==
  \A i \in 1 .. Len(Fields(ty)) :
    LET f == Fields(ty)[i]
    IN  IF f.flatten
          THEN f.ty \in StructTypes => WrittenFields(f.ty, m, lax)
          ELSE IF f.name \in DOMAIN m
                 THEN Written(f.ty, m[f.name], lax) /\ (f.skip => m[f.name] # JNull)
                 ELSE f.skip \/ (lax /\ f.ty \in OptionTypes)

Written(ty, v, lax) ==
  CASE ty \in {"u8", "u16", "u32", "i32", "DateTime<Utc>", "bool", "String", "char", "()"} ->
         Matches(ty, v)
    [] ty = "f64" -> v.k = "float"
    [] ty = "f32" -> v.k = "float" /\ v.v % 5 = 0
    [] ty \in OptionTypes -> v = JNull \/ Written(Elem(ty), v, lax)
    [] ty \in VecTypes -> v.k = "seq" /\ \A i \in 1 .. Len(v.v) : Written(Elem(ty), v.v[i], lax)
    [] ty \in EnumTypes -> v.k = "str" /\ Matches(ty, v)
    [] ty \in TaggedTypes ->
         /\ Matches(ty, v)
         /\ \A i \in TagIndex(TaggedVariants(ty), v.v["type"].v) :
              Written(TaggedVariants(ty)[i].ty, JObj(Without(v.v, {"type"})), lax)
    [] OTHER ->
         /\ v.k = "obj"
         /\ WrittenFields(ty, v.v, lax)
         /\ HasBag(ty) \/ DOMAIN v.v \subseteq KnownKeys(ty)

\* v is what the encoder writes for some value of type ty
Exact(ty, v) == Written(ty, v, FALSE)

\* the innermost of the nested metadata fields of a composed metadata value,
\* and its type
RECURSIVE Innermost(_)
Innermost(d) == IF "metadata" \in DOMAIN d THEN Innermost(d["metadata"]) ELSE d
RECURSIVE InnerType(_)
InnerType(ty) ==
  IF \E i \in 1 .. Len(Declared(ty)) : Declared(ty)[i].name = "metadata"
    THEN InnerType(Declared(ty)[FieldIndex(Declared(ty), "metadata")].ty)
    ELSE ty

\* the keys of Metadata<I>
InnerKeys == {"permissions", "excluded_permissions", "interactions"}

\* an object was given to a composed metadata type and the decode is over
MetadataDecoded(ty) ==
  /\ ty \in ComposedMetadata
  /\ codec.root = StructRoot(ty)
  /\ codec.pc \in {"decoded", "encoded", "again"}
  /\ codec.json.k = "obj"

\* the inner metadata is read from the keys of the one flat object, beside
\* iq_by_action / features / relationships; an object that has them
\* elsewhere is refused; and they are written to the one flat object
FlatMetadata(ty) ==
  /\ codec.value.kind = "Ok" =>
       /\ InnerKeys \subseteq DOMAIN codec.json.v
       /\ Innermost(codec.value.value) = Decoded(InnerType(ty), codec.json)
  /\ ~(InnerKeys \subseteq DOMAIN codec.json.v) => codec.value.kind = "Err"
  /\ codec.pc \in {"encoded", "again"} =>
       /\ codec.out.k = "obj"
       /\ "metadata" \notin DOMAIN codec.out.v
       /\ KnownKeys(ty) = DOMAIN codec.out.v
       /\ \A key \in InnerKeys :
            codec.out.v[key] = Encoded(InnerType(ty), Innermost(codec.value.value)).v[key]

\* C19 as stated: the inner metadata's keys are read from and written to the
\* one flat object, and every flat metadata object that is decoded and then
\* encoded comes out identical
C19_FlatRoundTripAny ==
  \A ty \in StructTypes :
    MetadataDecoded(ty) =>
      /\ FlatMetadata(ty)
      /\ codec.pc \in {"encoded", "again"} => codec.out = codec.json

\* C19: the inner metadata's keys are read from and written to the one flat
\* object, and a flat metadata object written the way the encoder writes
\* (Exact) that is decoded and then encoded comes out identical
C19_FlatRoundTrip ==
  \A ty \in StructTypes :
    MetadataDecoded(ty) =>
      /\ FlatMetadata(ty)
      /\ (codec.pc \in {"encoded", "again"} /\ Exact(ty, codec.json)) => codec.out = codec.json

\* the metadata of a song, relationships and actions beside the inner keys,
\* has gone through decode and encode and come out identical
C19_Witness ==
  /\ MetadataDecoded("SongMetadata")
  /\ codec.pc = "encoded"
  /\ Exact("SongMetadata", codec.json)
  /\ DOMAIN codec.json.v = InnerKeys \cup {"iq_by_action", "relationships"}
  /\ codec.out = codec.json


\* a decoded body has been serialized, with the catchall feature
Reserialized(T) ==
  /\ codec.catchall
  /\ codec.root = ResponseRoot(T)
  /\ codec.pc \in {"encoded", "again"}

\* assert_json_include: every key and element of expected is in actual
RECURSIVE Includes(_, _)
Includes(actual, expected) ==
  CASE expected.k = "obj" ->
         /\ actual.k = "obj"
         /\ \A key \in DOMAIN expected.v :
              key \in DOMAIN actual.v /\ Includes(actual.v[key], expected.v[key])
    [] expected.k = "seq" ->
         /\ actual.k = "seq"
         /\ Len(actual.v) = Len(expected.v)
         /\ \A i \in 1 .. Len(expected.v) : Includes(actual.v[i], expected.v[i])
    [] OTHER -> actual = expected

\* the body is an envelope written the way the encoder writes it: a success
\* around a payload, a structured error with or without its payload, or an
\* error outside the documented format
WrittenBody(T, body, lax) ==
  /\ body.k = "obj"
  /\ \/ /\ DOMAIN body.v = {"meta", "response"}
        /\ Exact("SuccessMeta", body.v["meta"])
        /\ Written(T, body.v["response"], lax)
     \/ /\ DOMAIN body.v \in {{"meta"}, {"meta", "response"}}
        /\ Exact("ErrorMeta", body.v["meta"])
        /\ "response" \in DOMAIN body.v => Exact("ErrorResponse", body.v["response"])
     \/ /\ DOMAIN body.v = {"error", "error_description"}
        /\ \A key \in DOMAIN body.v : body.v[key].k = "str"

\* C20 as stated: with the catchall feature, the Response of every body that
\* is decoded without error serializes to a value equal to the body; for the
\* song endpoint, to a value that includes the body
C20_ResponseRoundTripAny ==
  \A T \in PayloadTypes :
    Reserialized(T) =>
      IF T = "SongResponse" THEN Includes(codec.out, codec.json) ELSE codec.out = codec.json

\* C20: with the catchall feature, the Response of a body written the way
\* the encoder writes it serializes to a value equal to the body; for the
\* song endpoint, where optional keys may be missing from the body as well,
\* to a value that includes the body
C20_ResponseRoundTrip ==
  \A T \in PayloadTypes :
    Reserialized(T) =>
      /\ WrittenBody(T, codec.json, FALSE) => codec.out = codec.json
      /\ (T = "SongResponse" /\ WrittenBody(T, codec.json, TRUE)) =>
           Includes(codec.out, codec.json)

\* an annotation with a key the model does not know came back whole
C20_Witness ==
  /\ Reserialized("AnnotationResponse")
  /\ codec.value.value.variant = "Success"
  /\ UnknownKey \in DOMAIN codec.json.v["response"].v["annotation"].v
  /\ WrittenBody("AnnotationResponse", codec.json, FALSE)
  /\ codec.out = codec.json

\* a structured error without its payload came back whole
C20_WitnessError ==
  /\ Reserialized("WebPageResponse")
  /\ codec.value.value.variant = "Error"
  /\ DOMAIN codec.json.v = {"meta"}
  /\ codec.out = codec.json

\* a song whose body lacks an optional key came back with everything in it
C20_WitnessSong ==
  /\ Reserialized("SongResponse")
  /\ codec.value.value.variant = "Success"
  /\ WrittenBody("SongResponse", codec.json, TRUE)
  /\ ~WrittenBody("SongResponse", codec.json, FALSE)
  /\ Includes(codec.out, codec.json)
  /\ codec.out # codec.json


\* the JSON value v without the key no type declares, at every level
RECURSIVE StripUnknown(_)
StripUnknown(v) ==
  CASE v.k = "obj" -> JObj([key \in DOMAIN v.v \ {UnknownKey} |-> StripUnknown(v.v[key])])
    [] v.k = "seq" -> JArr([i \in 1 .. Len(v.v) |-> StripUnknown(v.v[i])])
    [] OTHER -> v

\* the key no type declares is somewhere in the JSON value v
RECURSIVE HoldsUnknown(_)
HoldsUnknown(v) ==
  CASE v.k = "obj" -> UnknownKey \in DOMAIN v.v \/ \E key \in DOMAIN v.v : HoldsUnknown(v.v[key])
    [] v.k = "seq" -> \E i \in 1 .. Len(v.v) : HoldsUnknown(v.v[i])
    [] OTHER -> FALSE

\* C21: without the catchall feature a key no field is mapped to changes
\* nothing: the document decodes to what it decodes to without the key (a
\* failure only if it fails without it), and the key is nowhere in what the
\* decoded value serializes to
C21_UnknownKeysDropped ==
  (~codec.catchall /\ codec.pc \in {"decoded", "encoded", "again"}) =>
    /\ codec.value = DecodeRoot(codec.root, StripUnknown(codec.json))
    /\ codec.pc \in {"encoded", "again"} => ~HoldsUnknown(codec.out)

\* an annotation with an unknown key was decoded and serialized
C21_Witness ==
  /\ ~codec.catchall
  /\ codec.root = StructRoot("Annotation")
  /\ codec.pc = "encoded"
  /\ codec.json = JObj((UnknownKey :> JNum(7)) @@ Sample("Annotation").v)
  /\ codec.value = Ok(Decoded("Annotation", Sample("Annotation")))
  /\ UnknownKey \notin DOMAIN codec.out.v


(***************************************************************************)
(* Paths, arguments, query order.                                          *)
(***************************************************************************)
\* the call is inside get and its arguments are still at hand
InGet(c) == calls[c].pc \in {"get", "send", "await"}

\* the path of each operation without its leading "/", the id written in
\* decimal by ToString
PathAfterSlash(op, args) ==
  CASE op = "account" -> "account"
    [] op = "referents" -> "referents"
    [] op = "search" -> "search"
    [] op = "web_pages" -> "web_pages/lookup"
    [] op = "annotation" -> "annotations/" \o ToString(args.id)
    [] op = "artist" -> "artists/" \o ToString(args.id)
    [] op = "song" -> "songs/" \o ToString(args.id)
    [] op = "user" -> "users/" \o ToString(args.id)

\* C22: each operation targets its own fixed path, which begins with "/" and
\* for annotation, artist, song and user ends in the decimal form of the id,
\* and the GET goes to https://api.genius.com followed by that path
C22_FixedPaths ==
  \A c \in CallIds :
    InGet(c) =>
      /\ calls[c].endpoint = "/" \o PathAfterSlash(calls[c].op, calls[c].args)
      /\ calls[c].pc = "await" =>
           /\ calls[c].request.method = "GET"
           /\ calls[c].request.url
                = "https://api.genius.com/" \o PathAfterSlash(calls[c].op, calls[c].args)

\* the song with the large id has been asked for
C22_Witness ==
  \E c \in CallIds :
    /\ calls[c].pc = "await"
    /\ calls[c].op = "song"
    /\ calls[c].args.id = BigId
    /\ calls[c].request.url = "https://api.genius.com/songs/999999999"


\* the pairs of a query
Pairs(query) == {query[i] : i \in 1 .. Len(query)}

\* the pair an optional argument is sent as, if it is set
SentAs(opt, key, pairs) == opt.k = "some" => <<key, opt.v>> \in pairs

\* the pair a numeric optional argument is sent as, if it is set
SentAsDecimal(opt, key, pairs) == opt.k = "some" => <<key, ToString(opt.v)>> \in pairs

\* every argument of the call is in the endpoint or the query, as it was passed
PassedThrough(call) ==
  CASE call.op = "account" -> TRUE
    [] call.op \in {"annotation", "artist", "song", "user"} ->
         call.endpoint = "/" \o PathAfterSlash(call.op, call.args)
    [] call.op = "search" -> call.query = <<<<"q", call.args.query>>>>
    [] call.op = "referents" ->
         /\ SentAsDecimal(call.args.created_by, "created_by_id", Pairs(call.query))
         /\ SentAsDecimal(call.args.per_page, "per_page", Pairs(call.query))
         /\ SentAsDecimal(call.args.page, "page", Pairs(call.query))
         /\ call.args.associated.k = "some" =>
              <<IF call.args.associated.v.tag = "SongId" THEN "song_id" ELSE "web_page_id",
                ToString(call.args.associated.v.id)>> \in Pairs(call.query)
    [] call.op = "web_pages" ->
         /\ SentAs(call.args.raw_annotatable_url, "raw_annotatable_url", Pairs(call.query))
         /\ SentAs(call.args.canonical_url, "canonical_url", Pairs(call.query))
         /\ SentAs(call.args.og_url, "og_url", Pairs(call.query))

\* C23: no operation rejects its arguments: whatever they are, the call
\* enters get with them passed through unchanged, the log and the dispatch
\* follow without a condition, the request carries the query as built, and
\* an Err comes only after the dispatch, from the transport or the decode
C23_NoLocalValidation ==
  /\ [](\A c \in CallIds :
          /\ InGet(c) => PassedThrough(calls[c])
          /\ calls[c].pc = "get" => ENABLED Log(c)
          /\ calls[c].pc = "send" => ENABLED Dispatch(c)
          /\ calls[c].pc = "await" => calls[c].request.query = calls[c].query
          /\ (calls[c].pc = "done" /\ calls[c].result.kind = "Err") =>
               /\ calls[c].nsent = 1
               /\ calls[c].result.err \in {"HttpError", "JsonError"})
  /\ [][\A c \in CallIds :
          (calls[c].pc = "idle" /\ calls'[c] # calls[c]) => calls'[c].pc = "get"]_vars

\* referents with per_page and page equal to 0 has been dispatched
C23_Witness ==
  \E c \in CallIds :
    /\ calls[c].pc = "await"
    /\ calls[c].op = "referents"
    /\ calls[c].args.per_page = Some(0)
    /\ calls[c].args.page = Some(0)
    /\ {<<"per_page", "0">>, <<"page", "0">>} \subseteq Pairs(calls[c].request.query)


\* a search is over, on a body in the shape of a success with status 200
Decoded200(c) ==
  /\ calls[c].pc = "done"
  /\ calls[c].op = "search"
  /\ calls[c].text.k = "obj"
  /\ DOMAIN calls[c].text.v = {"meta", "response"}
  /\ calls[c].text.v["meta"] = JObj([status |-> JNum(200)])
  /\ calls[c].text.v["response"].k = "obj"
  /\ DOMAIN calls[c].text.v["response"].v = {"hits"}
  /\ calls[c].text.v["response"].v["hits"].k = "seq"

\* the hits of the body of a search that is over
HitsOf(c) == calls[c].text.v["response"].v["hits"].v

\* the hit is an object tagged "song"
TaggedSong(hit) ==
  hit.k = "obj" /\ "type" \in DOMAIN hit.v /\ hit.v["type"] = JStr("song")

\* C24: search sends the one pair q=term, the empty term included; a success
\* body whose hits are song hits, none or some, gives Response::Success with
\* as many hits, each Hit::Song; a body with a hit that is not tagged "song"
\* does not give Response::Success
C24_SearchHits ==
  \A c \in CallIds :
    /\ (InGet(c) /\ calls[c].op = "search") =>
         /\ calls[c].query = <<<<"q", calls[c].args.query>>>>
         /\ calls[c].pc = "await" => calls[c].request.query = <<<<"q", calls[c].args.query>>>>
    /\ (Decoded200(c) /\ \A i \in 1 .. Len(HitsOf(c)) : HitsOf(c)[i] = Sample("Hit")) =>
         /\ calls[c].result.kind = "Ok"
         /\ calls[c].result.value.variant = "Success"
         /\ Len(calls[c].result.value.response.hits) = Len(HitsOf(c))
         /\ \A i \in 1 .. Len(HitsOf(c)) :
              calls[c].result.value.response.hits[i].variant = "song"
    /\ (Decoded200(c) /\ \E i \in 1 .. Len(HitsOf(c)) : ~TaggedSong(HitsOf(c)[i])) =>
         calls[c].result = Err("JsonError")
    /\ ( /\ calls[c].pc = "done" /\ calls[c].op = "search"
         /\ calls[c].text.k = "obj"
         /\ "response" \in DOMAIN calls[c].text.v
         /\ calls[c].text.v["response"] \in OtherHits ) =>
           (calls[c].result.kind = "Ok" => calls[c].result.value.variant # "Success")

\* a search gave one song hit
C24_Witness ==
  \E c \in CallIds :
    /\ Decoded200(c)
    /\ HitsOf(c) = <<Sample("Hit")>>
    /\ calls[c].result.kind = "Ok"
    /\ calls[c].result.value.response.hits[1].variant = "song"

\* a search gave no hit
C24_WitnessEmpty ==
  \E c \in CallIds :
    /\ Decoded200(c)
    /\ HitsOf(c) = <<>>
    /\ calls[c].result.kind = "Ok"
    /\ calls[c].result.value.response.hits = <<>>

\* the empty term was sent
C24_WitnessEmptyTerm ==
  \E c \in CallIds :
    /\ calls[c].pc = "await"
    /\ calls[c].op = "search"
    /\ calls[c].request.query = <<<<"q", "">>>>


\* the place of each key in the order of referents and of web_pages
RankOf(key) ==
  CASE key = "text_format" -> 1
    [] key = "created_by_id" -> 2
    [] key \in {"song_id", "web_page_id"} -> 3
    [] key = "per_page" -> 4
    [] key = "page" -> 5
    [] key = "raw_annotatable_url" -> 1
    [] key = "canonical_url" -> 2
    [] key = "og_url" -> 3

\* the keys of the query come in the fixed order, none twice
InFixedOrder(query) ==
  \A i, j \in 1 .. Len(query) : i < j => RankOf(query[i][1]) < RankOf(query[j][1])

\* the key is in the query exactly when the argument is set
KeyIffSome(opt, key, query) == opt.k = "some" <=> key \in Keys(query)

\* C25: referents sends text_format, created_by_id, song_id or web_page_id,
\* per_page, page in this order, web_pages sends raw_annotatable_url,
\* canonical_url, og_url in this order; a key is sent exactly when its
\* argument is set, at most once, a number in its decimal form
C25_QueryOrder ==
  \A c \in CallIds :
    /\ (InGet(c) /\ calls[c].op = "referents") =>
         /\ InFixedOrder(calls[c].query)
         /\ calls[c].query[1] = <<"text_format", "html,plain">>
         /\ Keys(calls[c].query)
              \subseteq {"text_format", "created_by_id", "song_id", "web_page_id", "per_page", "page"}
         /\ KeyIffSome(calls[c].args.created_by, "created_by_id", calls[c].query)
         /\ KeyIffSome(calls[c].args.per_page, "per_page", calls[c].query)
         /\ KeyIffSome(calls[c].args.page, "page", calls[c].query)
         /\ calls[c].args.associated.k = "some"
              <=> Keys(calls[c].query) \cap {"song_id", "web_page_id"} # {}
         /\ PassedThrough(calls[c])
         /\ calls[c].pc = "await" => calls[c].request.query = calls[c].query
    /\ (InGet(c) /\ calls[c].op = "web_pages") =>
         /\ InFixedOrder(calls[c].query)
         /\ Keys(calls[c].query) \subseteq {"raw_annotatable_url", "canonical_url", "og_url"}
         /\ KeyIffSome(calls[c].args.raw_annotatable_url, "raw_annotatable_url", calls[c].query)
         /\ KeyIffSome(calls[c].args.canonical_url, "canonical_url", calls[c].query)
         /\ KeyIffSome(calls[c].args.og_url, "og_url", calls[c].query)
         /\ PassedThrough(calls[c])
         /\ calls[c].pc = "await" => calls[c].request.query = calls[c].query

\* referents with every argument set has been dispatched with its five pairs
C25_Witness ==
  \E c \in CallIds :
    /\ calls[c].pc = "await"
    /\ calls[c].op = "referents"
    /\ calls[c].args.associated = Some(WebPageId(BigId))
    /\ calls[c].request.query
         = << <<"text_format", "html,plain">>, <<"created_by_id", "1">>,
              <<"web_page_id", "999999999">>, <<"per_page", "255">>, <<"page", "0">> >>

\* web_pages with every URL set has been dispatched with its three pairs
C25_WitnessWebPages ==
  \E c \in CallIds :
    /\ calls[c].pc = "await"
    /\ calls[c].op = "web_pages"
    /\ Len(calls[c].request.query) = 3


\* the Clients a build that has just succeeded returns
FreshClients ==
  {ClientOf(BuildHeaders(WithAuthToken(NewBuilder, t)).headers) :
     t \in {u \in Tokens : IsValidHeaderValue(Bearer \o u)}}

\* the result of the call on a Client just built, for the response the
\* transport gave to this call
FreshOutcome(call) ==
  IF call.text = NoText
    THEN Err("HttpError")
    ELSE FromSlice(PayloadType(call.op), call.response.body)

\* some call has completed, with any outcome
Completed == \E c \in Tasks : calls[c].pc = "done"

\* C26: a call leaves the Client unchanged whatever its outcome.  No step of
\* a call changes a Client or the builder, every Client that exists equals a
\* Client just built, and once a call has completed (Ok, HttpError or
\* JsonError) every call that completes from then on has the result the same
\* call has on a Client just built, for the same transport response.
C26_ClientUnchanged ==
  /\ [](\A h \in Live : clients[h] \in FreshClients)
  /\ [](Completed =>
          [](\A c \in Tasks : calls[c].pc = "done" => calls[c].result = FreshOutcome(calls[c])))
  /\ [][(\E c \in Tasks : calls'[c] # calls[c]) => clients' = clients /\ builder' = builder]_vars

\* on the only Client there is, a call has failed in the decode and the same
\* operation has given a success
C26_Witness ==
  /\ Live = {First(Handles)}
  /\ \E c \in Tasks : \E d \in Tasks \ {c} :
       /\ calls[c].pc = "done" /\ calls[c].result = Err("JsonError")
       /\ calls[d].pc = "done" /\ calls[d].op = calls[c].op
       /\ IsVariant(d, "Success")

\* a call has failed in the transport while another is about to be sent
C26_WitnessHttp ==
  \E c \in Tasks : \E d \in Tasks \ {c} :
    /\ calls[c].pc = "done" /\ calls[c].result = Err("HttpError")
    /\ calls[d].pc = "send"


\* the line of account and of song, written out from the arguments
LineOf(op, args) ==
  CASE op = "account" -> "endpoint: \"/account\", queries: \"text_format=html,plain\""
    [] op = "song" ->
         "endpoint: \"/songs/" \o ToString(args.id) \o "\", queries: \"text_format=html,plain\""

\* the call has written its line and still holds it
Logged(c) == calls[c].pc \in {"send", "await"}

\* the token the Client of call c was built from
TokenOf(c) ==
  {t \in Tokens : clients[calls[c].client].internal.default_headers
                    = <<<<AUTHORIZATION, HeaderVal(t)>>>>}

\* C28: the log line of a call is a function of the endpoint and the query
\* pairs only.  Whatever token the Client was built from, the line is the
\* text made of the endpoint and the pairs, the same text for the same
\* operation and arguments; it is written once; and every header value a
\* Client or a request holds is marked sensitive.
C28_LogWithoutToken ==
  /\ \A c \in Tasks :
       Logged(c) =>
         /\ calls[c].logLine = LogLine(calls[c].endpoint, calls[c].query)
         /\ calls[c].logLine = LineOf(calls[c].op, calls[c].args)
         /\ calls[c].nlog = 1
         /\ \A d \in Tasks :
              Logged(d) /\ calls[d].op = calls[c].op /\ calls[d].args = calls[c].args
                => calls[d].logLine = calls[c].logLine
  /\ \A h \in Live :
       \A i \in 1 .. Len(clients[h].internal.default_headers) :
         clients[h].internal.default_headers[i][2].sensitive
  /\ \A c \in Tasks :
       calls[c].pc = "await" =>
         \A i \in 1 .. Len(calls[c].request.headers) : calls[c].request.headers[i][2].sensitive

\* a Client built from the token "B\t" has logged the line of song 1
C28_Witness ==
  \E c \in Tasks :
    /\ calls[c].pc = "send"
    /\ TokenOf(c) = {<<66, 9>>}
    /\ calls[c].logLine = "endpoint: \"/songs/1\", queries: \"text_format=html,plain\""

\* a Client built from the empty token has logged the same line
C28_WitnessOtherToken ==
  \E c \in Tasks :
    /\ calls[c].pc = "send"
    /\ TokenOf(c) = {<<>>}
    /\ calls[c].logLine = "endpoint: \"/songs/1\", queries: \"text_format=html,plain\""


\* the five outcomes of a call
IsOutcome(result) ==
  \/ result.kind = "Ok" /\ result.value.variant \in {"Success", "Error", "Other"}
  \/ result.kind = "Err" /\ result.err \in {"HttpError", "JsonError"}

\* the places where a call waits for the transport
AtTransport(c) == calls[c].pc \in {"await", "bytes"}

\* how far a call has come
Progress(pc) ==
  CASE pc = "idle" -> 0
    [] pc = "get" -> 1
    [] pc = "send" -> 2
    [] pc = "await" -> 3
    [] pc = "bytes" -> 4
    [] pc = "decode" -> 5
    [] pc = "done" -> 6
    [] OTHER -> 0

\* C27: with a transport that ends each wait by a response or a failure, and
\* by a body or a failure, every call that was started completes, and a
\* completed call holds one of the five outcomes.  The call waits nowhere
\* but on the transport: elsewhere its next step can always be taken, and
\* every step takes it forward, none is repeated.
C27_CallCompletes ==
  /\ \A c \in CallIds :
       (calls[c].pc # "idle") ~> (calls[c].pc = "done" /\ IsOutcome(calls[c].result))
  /\ [](\A c \in CallIds :
          /\ calls[c].pc = "done" => IsOutcome(calls[c].result)
          /\ calls[c].pc = "get" => ENABLED Log(c)
          /\ calls[c].pc = "send" => ENABLED Dispatch(c)
          /\ calls[c].pc = "decode" => ENABLED Decode(c)
          /\ calls[c].pc = "await" => ENABLED SendFails(c) /\ ENABLED SendRespondsLive(c)
          /\ calls[c].pc = "bytes" => ENABLED BytesFails(c) /\ ENABLED BytesBuffered(c))
  /\ [][\A c \in CallIds :
          calls'[c] # calls[c] /\ calls[c].pc # "done"
            => Progress(calls'[c].pc) > Progress(calls[c].pc)]_vars

\* a call of referents has completed with a decoded envelope
C27_Witness ==
  \E c \in CallIds :
    /\ calls[c].pc = "done" /\ calls[c].op = "referents"
    /\ IsVariant(c, "Success")

\* a call has completed after the transport failed while the body was read
C27_WitnessBytesFailed ==
  \E c \in CallIds :
    /\ calls[c].pc = "done" /\ calls[c].result = Err("HttpError")
    /\ calls[c].response # NoResponse

====
